---------------------------- MODULE Spec2Model ----------------------------
(***************************************************************************)
(* Transformation engine of the kgateway envoyinit dynamic module:         *)
(*   transformations/src/lib.rs     configuration model, TransformationOps *)
(*   transformations/src/jinja.rs   function library, render pipeline,     *)
(*                                  transform_request / transform_response *)
(*   rustformations/src/http_simple_mutations.rs                           *)
(*                                  EnvoyTransformationOps, Filter and its *)
(*                                  four HTTP callbacks                     *)
(* Strings are TLA+ strings (TLC evaluates Len, \o and SubSeq on them).    *)
(***************************************************************************)
EXTENDS Integers, Sequences, FiniteSets, TLC

VARIABLES
    filter,     \* the Filter object: filter_config, per_route_config, request_headers_map
    envoy,      \* the EnvoyHttpFilter behind the callbacks: headers, body buffers, replies
    phase,      \* which callback the stream expects next
    status,     \* the status the last callback returned
    run,        \* the record of the last orchestration (calls issued, renders, result)
    lib,        \* the build of the module and the last call of one of its functions
    evals       \* evaluations in progress at once: the configuration they share, and
                \* each one's position and state

vars == <<filter, envoy, phase, status, run, lib, evals>>

---------------------------------------------------------------------------
(* Option<T> *)

None == [some |-> FALSE]

Some(x) == [some |-> TRUE, v |-> x]

IsSome(o) == o.some

Range(s) == {s[i] : i \in DOMAIN s}

\* F applied to the value of v, with v evaluated once.
Bind(v, F(_)) == CHOOSE r \in {F(x) : x \in {v}} : TRUE

---------------------------------------------------------------------------
(* jinja.rs constants *)

STATE_LOOKUP_KEY_BODY == "body.dev.kgateway"

STATE_LOOKUP_KEY_CONTEXT == "context.dev.kgateway"

STATE_LOOKUP_KEY_HEADERS == "headers.dev.kgateway"

STATE_LOOKUP_KEY_REQ_HEADERS == "request_headers.dev.kgateway"

REQUEST_BODY_TEMPLATE_LOOKUP_KEY == "request_body_0"

RESPONSE_BODY_TEMPLATE_LOOKUP_KEY == "response_body_0"

\* new_jinja_env: the names registered with add_function; GLOBALS_LOOKUP is
\* this set of names.
GLOBALS_LOOKUP ==
    {"env", "substring", "base64_encode", "base64url_encode", "base64_decode",
     "base64url_decode", "replace_with_random", "replace_with_string",
     "raw_string", "header", "request_header", "body", "context"}

---------------------------------------------------------------------------
(* Values of the template engine and of serde_json *)

VStr(s) == [k |-> "str", s |-> s]

VNum(n) == [k |-> "num", n |-> n]

VMap(m) == [k |-> "map", m |-> m]

VUndefined == [k |-> "undefined"]

VNull == [k |-> "null"]

EmptyMap == [x \in {} |-> VUndefined]

\* HashMap::insert / BTreeMap::insert: the new value replaces the old one.
Insert(m, key, val) == (key :> val) @@ m

\* Decimal text of a natural number (usize::to_string).
Digit(d) == SubSeq("0123456789", d + 1, d + 1)

RECURSIVE to_string(_)
to_string(n) == IF n < 10 THEN Digit(n) ELSE to_string(n \div 10) \o Digit(n % 10)

---------------------------------------------------------------------------
(* Templates.  A template source text is compiled by minijinja into a      *)
(* sequence of segments; the texts a configuration may hold are these.     *)

T_EMPTY == ""

T_LIT == "v1"

T_JSON_VAR == "{{ k }}"

T_BAD_CALL == "{{ header() }}"

T_HEADER == "{{ header('x-a') }}"

T_REQ_HEADER == "{{ request_header('x-a') }}"

T_IF == "{%- if true -%}supersuper{% endif %}"

T_BODY == "{{ body() }}"

T_CONTEXT == "{{ context().k }}"

T_VAR_BAD_CALL == "{{ k }}{{ header() }}"

\* An expression that is not closed: a syntax error.
T_SYNTAX == "{{ k"

\* A literal text that is the lookup key of the request body template.
T_ALIAS == "request_body_0"

T_ENV == "{{ env('HOME') }}"

Lit(s) == [t |-> "lit", s |-> s]

Emit(e) == [t |-> "emit", e |-> e]

IfBlock(c, s) == [t |-> "if", c |-> c, s |-> s]

EStr(s) == [e |-> "str", s |-> s]

EBool(b) == [e |-> "bool", b |-> b]

EVar(n) == [e |-> "var", n |-> n, args |-> <<>>]

ECall(n, args) == [e |-> "call", n |-> n, args |-> args]

EAttr(of, n) == [e |-> "attr", n |-> n, args |-> <<of>>]

\* Environment::add_template_owned fails on a source with a syntax error.
HasSyntaxError(src) == src = T_SYNTAX

\* Environment::add_template_owned: the compiled form of a source text.
Compile(src) ==
    CASE src = T_LIT -> <<Lit("v1")>>
      [] src = T_ALIAS -> <<Lit("request_body_0")>>
      [] src = T_ENV -> <<Emit(ECall("env", <<EStr("HOME")>>))>>
      [] src = T_JSON_VAR -> <<Emit(EVar("k"))>>
      [] src = T_BAD_CALL -> <<Emit(ECall("header", <<>>))>>
      [] src = T_HEADER -> <<Emit(ECall("header", <<EStr("x-a")>>))>>
      [] src = T_REQ_HEADER -> <<Emit(ECall("request_header", <<EStr("x-a")>>))>>
      [] src = T_IF -> <<IfBlock(EBool(TRUE), "supersuper")>>
      [] src = T_BODY -> <<Emit(ECall("body", <<>>))>>
      [] src = T_CONTEXT -> <<Emit(EAttr(ECall("context", <<>>), "k"))>>
      [] src = T_VAR_BAD_CALL -> <<Emit(EVar("k")), Emit(ECall("header", <<>>))>>

\* str::contains("body()") and str::contains("context()") on these texts.
ContainsBodyCall(src) == src = T_BODY

ContainsContextCall(src) == src = T_CONTEXT

\* Template::undeclared_variables(true): every name looked up in the
\* context, the names of called functions included.
RECURSIVE ExprNames(_)
ExprNames(e) ==
    CASE e.e = "var" -> {e.n}
      [] e.e = "call" ->
            {e.n} \cup UNION {ExprNames(e.args[i]) : i \in DOMAIN e.args}
      [] e.e = "attr" -> ExprNames(e.args[1])
      [] OTHER -> {}

SegmentNames(seg) ==
    CASE seg.t = "lit" -> {}
      [] seg.t = "emit" -> ExprNames(seg.e)
      [] seg.t = "if" -> ExprNames(seg.c)

undeclared_variables(tmpl) == UNION {SegmentNames(tmpl[i]) : i \in DOMAIN tmpl}

---------------------------------------------------------------------------
(* Function library *)

\* usize: WordBits bits (64 in the program).
WordBits == 3

usize_MAX == 2 ^ WordBits - 1

\* The build profile: with overflow checks (debug) an addition that passes
\* usize::MAX panics, without them (release) it wraps.
Builds == {[overflow_checks |-> TRUE], [overflow_checks |-> FALSE]}

Returns(v) == [panic |-> FALSE, v |-> v]

Panics == [panic |-> TRUE]

\* a + b on usize
usize_add(a, b) ==
    IF a + b <= usize_MAX THEN Returns(a + b)
    ELSE IF lib.build.overflow_checks THEN Panics
    ELSE Returns((a + b) % (2 ^ WordBits))

\* A &str: the sequence of its characters, each a pair of its name and of
\* the number of bytes of its UTF-8 encoding.
Char(name, bytes) == <<name, bytes>>

RECURSIVE str_len(_)
str_len(text) == IF text = <<>> THEN 0 ELSE Head(text)[2] + str_len(Tail(text))

\* str::is_char_boundary
is_char_boundary(text, index) ==
    \E n \in 0..Len(text) : str_len(SubSeq(text, 1, n)) = index

\* input[start..end]: panics unless start <= end <= len and both are
\* character boundaries.
Slice(text, start, end) ==
    IF start > end \/ end > str_len(text) THEN Panics
    ELSE IF ~is_char_boundary(text, start) \/ ~is_char_boundary(text, end) THEN Panics
    ELSE LET from == CHOOSE n \in 0..Len(text) : str_len(SubSeq(text, 1, n)) = start
             to == CHOOSE n \in 0..Len(text) : str_len(SubSeq(text, 1, n)) = end
         IN Returns(SubSeq(text, from + 1, to))

\* The slice bounds substring computes, or the panic of the addition.
SubstringEnd(input_len, start, len) ==
    IF ~IsSome(len) THEN Returns(input_len)
    ELSE LET sum == usize_add(start, len.v)
         IN IF sum.panic THEN Panics
            ELSE IF sum.v <= input_len THEN Returns(sum.v) ELSE Returns(input_len)

\* Variant of substring that never clips the end to the length of the input.
substring_NoClip(input, start, len) ==
    LET input_len == str_len(input)
    IN IF start >= input_len THEN [panic |-> FALSE, v |-> <<>>, sliced |-> FALSE]
       ELSE LET end == IF IsSome(len) THEN usize_add(start, len.v)
                       ELSE Returns(input_len)
            IN IF end.panic THEN [panic |-> TRUE, sliced |-> FALSE]
               ELSE LET r == Slice(input, start, end.v)
                    IN IF r.panic
                       THEN [panic |-> TRUE, sliced |-> TRUE, start |-> start, end |-> end.v]
                       ELSE [panic |-> FALSE, v |-> r.v, sliced |-> TRUE,
                             start |-> start, end |-> end.v]

\* substring(input, start, len): the String returned, or a panic; sliced
\* tells whether input[start..end] was evaluated, and with which bounds.
substring(input, start, len) ==
    LET input_len == str_len(input)
    IN IF start >= input_len THEN [panic |-> FALSE, v |-> <<>>, sliced |-> FALSE]
       ELSE LET end == SubstringEnd(input_len, start, len)
            IN IF end.panic THEN [panic |-> TRUE, sliced |-> FALSE]
               ELSE LET r == Slice(input, start, end.v)
                    IN IF r.panic
                       THEN [panic |-> TRUE, sliced |-> TRUE, start |-> start, end |-> end.v]
                       ELSE [panic |-> FALSE, v |-> r.v, sliced |-> TRUE,
                             start |-> start, end |-> end.v]

Upper == "ABCDEFGHIJKLMNOPQRSTUVWXYZ"

Lower == "abcdefghijklmnopqrstuvwxyz"

LowerChar(c) ==
    IF \E i \in 1..Len(Upper) : SubSeq(Upper, i, i) = c
    THEN LET i == CHOOSE j \in 1..Len(Upper) : SubSeq(Upper, j, j) = c
         IN SubSeq(Lower, i, i)
    ELSE c

RECURSIVE to_lowercase(_)
to_lowercase(s) ==
    IF Len(s) = 0 THEN ""
    ELSE LowerChar(SubSeq(s, 1, 1)) \o to_lowercase(SubSeq(s, 2, Len(s)))

\* State::lookup: the context value under a key, if any.
StateLookup(ctx, key) == IF key \in DOMAIN ctx THEN Some(ctx[key]) ELSE None

\* <HashMap<String, String>>::deserialize succeeds on a map of strings only.
IsHeaderMap(v) ==
    /\ v.k = "map"
    /\ \A n \in DOMAIN v.m : v.m[n].k = "str"

\* Variant of lookup_header that looks the name up as it is written.
lookup_header_ExactName(headers, key) ==
    IF ~IsSome(headers) THEN ""
    ELSE IF ~IsHeaderMap(headers.v) THEN ""
    ELSE IF key \in DOMAIN headers.v.m THEN headers.v.m[key].s ELSE ""

lookup_header(headers, key) ==
    IF ~IsSome(headers) THEN ""
    ELSE IF ~IsHeaderMap(headers.v) THEN ""
    ELSE LET lowercase_key == to_lowercase(key)
         IN IF lowercase_key \in DOMAIN headers.v.m
            THEN headers.v.m[lowercase_key].s
            ELSE ""

header(ctx, key) == lookup_header(StateLookup(ctx, STATE_LOOKUP_KEY_HEADERS), key)

request_header(ctx, key) ==
    lookup_header(StateLookup(ctx, STATE_LOOKUP_KEY_REQ_HEADERS), key)

\* Value::to_string of the values a body can be bound to.
ValueText(v) ==
    CASE v.k = "str" -> v.s
      [] v.k = "num" -> to_string(v.n)
      [] v.k = "undefined" -> ""
      [] v.k = "null" -> "none"

\* std::env::var on the environment of the process.
ProcessEnvironment == [name \in {"HOME"} |-> "/home/envoy"]

\* get_env(env_var)
get_env_var(env_var) ==
    IF env_var \in DOMAIN ProcessEnvironment THEN ProcessEnvironment[env_var] ELSE ""

body_fn(ctx) ==
    LET b == StateLookup(ctx, STATE_LOOKUP_KEY_BODY)
    IN IF IsSome(b) THEN ValueText(b.v) ELSE ""

context_fn(ctx) ==
    LET c == StateLookup(ctx, STATE_LOOKUP_KEY_CONTEXT)
    IN IF IsSome(c) THEN c.v ELSE VUndefined

EvalOk(v) == [ok |-> TRUE, v |-> v]

EvalErr == [ok |-> FALSE]

\* A call of a registered function: minijinja converts the arguments to the
\* function's parameter types and fails the render when they do not fit.
CallFunction(name, args, ctx) ==
    CASE name = "header" ->
            IF Len(args) = 1 /\ args[1].k = "str"
            THEN EvalOk(VStr(header(ctx, args[1].s))) ELSE EvalErr
      [] name = "request_header" ->
            IF Len(args) = 1 /\ args[1].k = "str"
            THEN EvalOk(VStr(request_header(ctx, args[1].s))) ELSE EvalErr
      [] name = "body" ->
            IF Len(args) = 0 THEN EvalOk(VStr(body_fn(ctx))) ELSE EvalErr
      [] name = "env" ->
            IF Len(args) = 1 /\ args[1].k = "str"
            THEN EvalOk(VStr(get_env_var(args[1].s))) ELSE EvalErr
      [] name = "context" ->
            IF Len(args) = 0 THEN EvalOk(context_fn(ctx)) ELSE EvalErr
      [] OTHER -> EvalErr

\* Evaluation of an expression: a name resolves to the context first and to
\* the registered functions after it; a context value is not callable.  The
\* environment keeps minijinja's default undefined behaviour (Lenient): an
\* undefined value prints as the empty string, an attribute of an undefined
\* value fails the render, an attribute a value does not have is undefined.
RECURSIVE Eval(_, _)
Eval(e, ctx) ==
    CASE e.e = "str" -> EvalOk(VStr(e.s))
      [] e.e = "bool" -> EvalOk([k |-> "bool", b |-> e.b])
      [] e.e = "var" ->
            IF e.n \in DOMAIN ctx THEN EvalOk(ctx[e.n]) ELSE EvalOk(VUndefined)
      [] e.e = "attr" ->
            LET of == Eval(e.args[1], ctx)
            IN IF ~of.ok THEN EvalErr
               ELSE IF of.v.k = "undefined" THEN EvalErr
               ELSE IF of.v.k = "map" /\ e.n \in DOMAIN of.v.m
                    THEN EvalOk(of.v.m[e.n])
                    ELSE EvalOk(VUndefined)
      [] e.e = "call" ->
            LET args == [i \in DOMAIN e.args |-> Eval(e.args[i], ctx)]
            IN IF e.n \in DOMAIN ctx THEN EvalErr
               ELSE IF e.n \notin GLOBALS_LOOKUP THEN EvalErr
               ELSE IF \E i \in DOMAIN args : ~args[i].ok THEN EvalErr
               ELSE CallFunction(e.n, [i \in DOMAIN args |-> args[i].v], ctx)

\* Template::render: the concatenation of the segments' texts, or a failure.
RECURSIVE RenderSegments(_, _, _)
RenderSegments(tmpl, i, ctx) ==
    IF i > Len(tmpl) THEN [ok |-> TRUE, s |-> ""]
    ELSE LET seg == tmpl[i]
             rest == RenderSegments(tmpl, i + 1, ctx)
             here ==
                 CASE seg.t = "lit" -> [ok |-> TRUE, s |-> seg.s]
                   [] seg.t = "emit" ->
                         LET r == Eval(seg.e, ctx)
                         IN IF r.ok THEN [ok |-> TRUE, s |-> ValueText(r.v)]
                            ELSE [ok |-> FALSE, s |-> ""]
                   [] seg.t = "if" ->
                         LET c == Eval(seg.c, ctx)
                         IN IF ~c.ok THEN [ok |-> FALSE, s |-> ""]
                            ELSE IF c.v.k = "bool" /\ c.v.b
                                 THEN [ok |-> TRUE, s |-> seg.s]
                                 ELSE [ok |-> TRUE, s |-> ""]
         IN IF here.ok /\ rest.ok THEN [ok |-> TRUE, s |-> here.s \o rest.s]
            ELSE [ok |-> FALSE, s |-> ""]

---------------------------------------------------------------------------
(* Errors (anyhow::Error) and the render pipeline *)

\* TransformationError::UndeclaredJsonVariables
UndeclaredJsonVariables(template) ==
    [type |-> "TransformationError::UndeclaredJsonVariables", msg |-> template]

\* minijinja::Error under an anyhow context
LookupError(template) ==
    [type |-> "minijinja::Error", msg |-> "error looking up jinja template " \o template]

RenderError(template) ==
    [type |-> "minijinja::Error", msg |-> "error rendering jinja template " \o template]

\* serde_json::Error under an anyhow context
JsonParseError(msg) == [type |-> "serde_json::Error", msg |-> msg]

Ok(s) == [ok |-> TRUE, s |-> s]

Err(e) == [ok |-> FALSE, err |-> e]

\* Variant of render whose check also flags the names of registered
\* functions.
render_FlagsFunctions(env, ctx, template_key, template, parsed_body_as_json) ==
    IF template = "" THEN Ok("")
    ELSE IF template_key \notin DOMAIN env THEN Err(LookupError(template))
    ELSE LET tmpl == env[template_key].tmpl
             undeclared == undeclared_variables(tmpl)
         IN IF ~parsed_body_as_json /\ undeclared # {}
            THEN Err(UndeclaredJsonVariables(template))
            ELSE LET r == RenderSegments(tmpl, 1, ctx)
                 IN IF r.ok THEN Ok(r.s) ELSE Err(RenderError(template))

\* render(env, ctx, template_key, template, parsed_body_as_json)
render(env, ctx, template_key, template, parsed_body_as_json) ==
    IF template = "" THEN Ok("")
    ELSE IF template_key \notin DOMAIN env THEN Err(LookupError(template))
    ELSE LET tmpl == env[template_key].tmpl
             undeclared == undeclared_variables(tmpl)
         IN IF ~parsed_body_as_json /\ \E v \in undeclared : v \notin GLOBALS_LOOKUP
            THEN Err(UndeclaredJsonVariables(template))
            ELSE LET r == RenderSegments(tmpl, 1, ctx)
                 IN IF r.ok THEN Ok(r.s) ELSE Err(RenderError(template))

\* Error::downcast_ref::<TransformationError>()
IsTransformationError(e) == e.type = "TransformationError::UndeclaredJsonVariables"

\* Error::downcast_ref::<serde_json::error::Error>()
IsSerdeJsonError(e) == e.type = "serde_json::Error"

RECURSIVE JoinMsgs(_, _)
JoinMsgs(errors, i) ==
    IF i > Len(errors) THEN ""
    ELSE errors[i].msg \o (IF i < Len(errors) THEN "; " ELSE "") \o JoinMsgs(errors, i + 1)

\* Variant of combine_errors that reports the first error only.
combine_errors_FirstOnly(msg, errors) ==
    IF errors # <<>>
    THEN [ok |-> FALSE,
          err |-> [type |-> "anyhow", msg |-> msg \o ": " \o errors[1].msg,
                   causes |-> <<errors[1]>>]]
    ELSE [ok |-> TRUE]

\* combine_errors(msg, errors)
combine_errors(msg, errors) ==
    IF errors # <<>>
    THEN [ok |-> FALSE,
          err |-> [type |-> "anyhow", msg |-> msg \o ": " \o JoinMsgs(errors, 1),
                   causes |-> errors]]
    ELSE [ok |-> TRUE]

---------------------------------------------------------------------------
(* Configuration model (lib.rs) *)

AsString == "AsString"

AsJson == "AsJson"

NameValuePair(name, value) == [name |-> name, value |-> value]

BodyTransform(parse_as, value) == [parse_as |-> parse_as, value |-> value]

LocalTransform(add, set, remove, body) ==
    [add |-> add, set |-> set, remove |-> remove, body |-> body]

\* Variant of BodyTransform::is_empty that looks at the template only.
BodyTransform_is_empty_AnyMode(b) == b.value = ""

\* BodyTransform::is_empty
BodyTransform_is_empty(b) == b.value = "" /\ b.parse_as = AsString

\* LocalTransform::is_empty
LocalTransform_is_empty(t) ==
    /\ t.add = <<>>
    /\ t.set = <<>>
    /\ t.remove = <<>>
    /\ (IF IsSome(t.body) THEN BodyTransform_is_empty(t.body.v) ELSE TRUE)

\* The (key, source) pairs create_env_with_templates adds for one transform,
\* in the order it adds them: add, set, then the body under body_key.
RECURSIVE HeaderTemplates(_, _)
HeaderTemplates(pairs, i) ==
    IF i > Len(pairs) THEN <<>>
    ELSE (IF pairs[i].value = "" THEN <<>>
          ELSE <<[key |-> pairs[i].value, src |-> pairs[i].value]>>)
         \o HeaderTemplates(pairs, i + 1)

TransformTemplates(t, body_key) ==
    IF ~IsSome(t) THEN <<>>
    ELSE HeaderTemplates(t.v.add, 1) \o HeaderTemplates(t.v.set, 1)
         \o (IF IsSome(t.v.body) /\ t.v.body.v.value # ""
             THEN <<[key |-> body_key, src |-> t.v.body.v.value]>>
             ELSE <<>>)

\* The add_template_owned(key, source)? calls in order: the environment, in
\* which a key added again holds the later template, or the first failure.
RECURSIVE AddTemplates(_, _, _)
AddTemplates(env, entries, i) ==
    IF i > Len(entries) THEN [ok |-> TRUE, v |-> env]
    ELSE IF HasSyntaxError(entries[i].src) THEN [ok |-> FALSE]
    ELSE AddTemplates(Insert(env, entries[i].key,
                             [source |-> entries[i].src,
                              tmpl |-> Compile(entries[i].src)]),
                      entries, i + 1)

\* create_env_with_templates(config): Result<Environment>
create_env_with_templates(config) ==
    AddTemplates(EmptyMap,
                 TransformTemplates(config.request, REQUEST_BODY_TEMPLATE_LOOKUP_KEY)
                 \o TransformTemplates(config.response, RESPONSE_BODY_TEMPLATE_LOOKUP_KEY),
                 1)

\* FilterConfig { transformations, env }
FilterConfig(config) ==
    [transformations |-> config, env |-> create_env_with_templates(config).v]

---------------------------------------------------------------------------
(* The configuration document and serde_json::from_str on it *)

\* A JSON array.
VSeq(s) == [k |-> "seq", s |-> s]

\* A text that is not JSON.
NotJson == [k |-> "not json"]

\* A field the document does not have.
Absent == [k |-> "absent"]

Field(v, name) == IF name \in DOMAIN v.m THEN v.m[name] ELSE Absent

DeOk(v) == [ok |-> TRUE, v |-> v]

DeErr == [ok |-> FALSE]

\* String
de_String(v) == IF v.k = "str" THEN DeOk(v.s) ELSE DeErr

\* #[serde(default)] on a String field
de_default_String(v) == IF v = Absent THEN DeOk("") ELSE de_String(v)

\* Vec<T>, with #[serde(default)]: an absent field is the empty list, and
\* the first element that fails fails the list.
de_default_Vec(v, de(_)) ==
    IF v = Absent THEN DeOk(<<>>)
    ELSE IF v.k # "seq" THEN DeErr
    ELSE LET items == [i \in DOMAIN v.s |-> de(v.s[i])]
         IN IF \E i \in DOMAIN items : ~items[i].ok THEN DeErr
            ELSE DeOk([i \in DOMAIN items |-> items[i].v])

\* Option<T>, with #[serde(default)]: absent and null are None.
de_default_Option(v, de(_)) ==
    IF v = Absent \/ v = VNull THEN DeOk(None)
    ELSE LET x == de(v) IN IF x.ok THEN DeOk(Some(x.v)) ELSE DeErr

\* NameValuePair: name is required; the fields it does not know are skipped.
de_NameValuePair(v) ==
    IF v.k # "map" THEN DeErr
    ELSE LET name == de_String(Field(v, "name"))
             value == de_default_String(Field(v, "value"))
         IN IF name.ok /\ value.ok THEN DeOk(NameValuePair(name.v, value.v)) ELSE DeErr

\* BodyParseBehavior: the name of a variant.
de_BodyParseBehavior(v) ==
    IF v = Absent THEN DeOk(AsString)
    ELSE IF v = VStr("AsString") THEN DeOk(AsString)
    ELSE IF v = VStr("AsJson") THEN DeOk(AsJson)
    ELSE DeErr

\* BodyTransform
de_BodyTransform(v) ==
    IF v.k # "map" THEN DeErr
    ELSE LET parse_as == de_BodyParseBehavior(Field(v, "parseAs"))
             value == de_default_String(Field(v, "value"))
         IN IF parse_as.ok /\ value.ok THEN DeOk(BodyTransform(parse_as.v, value.v))
            ELSE DeErr

\* LocalTransform
de_LocalTransform(v) ==
    IF v.k # "map" THEN DeErr
    ELSE LET add == de_default_Vec(Field(v, "add"), de_NameValuePair)
             set == de_default_Vec(Field(v, "set"), de_NameValuePair)
             remove == de_default_Vec(Field(v, "remove"), de_String)
             body == de_default_Option(Field(v, "body"), de_BodyTransform)
         IN IF add.ok /\ set.ok /\ remove.ok /\ body.ok
            THEN DeOk(LocalTransform(add.v, set.v, remove.v, body.v))
            ELSE DeErr

\* LocalTransformationConfig
de_LocalTransformationConfig(v) ==
    IF v.k # "map" THEN DeErr
    ELSE LET request == de_default_Option(Field(v, "request"), de_LocalTransform)
             response == de_default_Option(Field(v, "response"), de_LocalTransform)
         IN IF request.ok /\ response.ok
            THEN DeOk([request |-> request.v, response |-> response.v])
            ELSE DeErr

\* serde_json::from_str::<LocalTransformationConfig>
from_str(filter_config) ==
    IF filter_config = NotJson THEN DeErr
    ELSE de_LocalTransformationConfig(filter_config)

\* Variant of FilterConfig_new that keeps a configuration whose templates
\* did not all compile, with an empty environment.
FilterConfig_new_KeepsBadTemplates(filter_config) ==
    LET config == from_str(filter_config)
    IN IF ~config.ok THEN None
       ELSE LET env == create_env_with_templates(config.v)
            IN IF ~env.ok THEN Some([transformations |-> config.v, env |-> EmptyMap])
               ELSE Some([transformations |-> config.v, env |-> env.v])

\* FilterConfig::new(filter_config): Option<FilterConfig>
FilterConfig_new(filter_config) ==
    LET config == from_str(filter_config)
    IN IF ~config.ok THEN None
       ELSE LET env == create_env_with_templates(config.v)
            IN IF ~env.ok THEN None
               ELSE Some([transformations |-> config.v, env |-> env.v])

---------------------------------------------------------------------------
(* Message bodies and serde_json::from_slice on them *)

B_EMPTY == ""

B_OBJECT == "{\"k\":\"jv\"}"

B_NULL == "null"

B_NUMBER == "7"

B_INVALID == "{bad"

\* An object with a field that has the name of a library function.
B_ENV == "{\"env\":\"jv\"}"

\* An object whose fields have the names of the context keys of the two
\* header maps.
B_RESERVED == "{\"headers.dev.kgateway\":{\"x-a\":\"fv\"},\"request_headers.dev.kgateway\":{\"x-a\":\"fv\"}}"

\* serde_json::from_slice
from_slice(bytes) ==
    CASE bytes = B_OBJECT -> [ok |-> TRUE, v |-> VMap([x \in {"k"} |-> VStr("jv")])]
      [] bytes = B_RESERVED ->
            [ok |-> TRUE,
             v |-> VMap([x \in {STATE_LOOKUP_KEY_HEADERS, STATE_LOOKUP_KEY_REQ_HEADERS}
                           |-> VMap([y \in {"x-a"} |-> VStr("fv")])])]
      [] bytes = B_ENV -> [ok |-> TRUE, v |-> VMap([x \in {"env"} |-> VStr("jv")])]
      [] bytes = B_NULL -> [ok |-> TRUE, v |-> VNull]
      [] bytes = B_NUMBER -> [ok |-> TRUE, v |-> VNum(7)]
      [] bytes = B_EMPTY -> [ok |-> FALSE, v |-> VNull]
      [] bytes = B_INVALID -> [ok |-> FALSE, v |-> VNull]

\* chunks.concat()
RECURSIVE concat(_)
concat(chunks) ==
    IF chunks = <<>> THEN "" ELSE Head(chunks) \o concat(Tail(chunks))

---------------------------------------------------------------------------
(* The header map of the proxy: a list of (name, value) entries *)

HeaderSet(hs, key, value) ==
    Append(SelectSeq(hs, LAMBDA p : p[1] # key), <<key, value>>)

HeaderAdd(hs, key, value) == Append(hs, <<key, value>>)

HeaderRemove(hs, key) == SelectSeq(hs, LAMBDA p : p[1] # key)

HeaderValues(hs, key) ==
    LET sel == SelectSeq(hs, LAMBDA p : p[1] = key)
    IN [i \in DOMAIN sel |-> sel[i][2]]

HasHeader(hs, key) == \E i \in DOMAIN hs : hs[i][1] = key

\* Filter::create_headers_map: a later entry of the same name replaces the
\* earlier one.
RECURSIVE create_headers_map(_)
create_headers_map(headers) ==
    IF headers = <<>> THEN EmptyMap
    ELSE LET n == Len(headers)
         IN Insert(create_headers_map(SubSeq(headers, 1, n - 1)),
                   headers[n][1], headers[n][2])

---------------------------------------------------------------------------
(* EnvoyTransformationOps: the TransformationOps the orchestrator calls.   *)
(* An ops object holds the proxy state it mutates, its own                 *)
(* used_received_response_body field, and the list of calls made on it.    *)

EnvoyTransformationOps_new(envoy_filter) ==
    [envoy_filter |-> envoy_filter,
     used_received_response_body |-> None,
     calls |-> <<>>]

Call(op, key, value, at) == [op |-> op, key |-> key, value |-> value, at |-> at]

Called(o, c) == [o EXCEPT !.calls = Append(@, c)]

\* drain of usize::MAX bytes: the buffer, when there is one, is left empty.
Drained(buffer) == IF IsSome(buffer) THEN Some(<<>>) ELSE None

Appended(buffer, data) ==
    IF IsSome(buffer) THEN Some(Append(buffer.v, data)) ELSE Some(<<data>>)

add_request_header(o, key, value, at) ==
    Called([o EXCEPT !.envoy_filter.request_headers = HeaderAdd(@, key, value)],
           Call("add_request_header", key, value, at))

set_request_header(o, key, value, at) ==
    Called([o EXCEPT !.envoy_filter.request_headers = HeaderSet(@, key, value)],
           Call("set_request_header", key, value, at))

remove_request_header(o, key, at) ==
    Called([o EXCEPT !.envoy_filter.request_headers = HeaderRemove(@, key)],
           Call("remove_request_header", key, "", at))

\* parse_request_json_body: [o, r] with r the Result<JsonValue>
\* Variant of parse_request_json_body that parses a body without chunks.
parse_request_json_body_ParsesEmpty(o, at) ==
    LET buffers == o.envoy_filter.buffered_request_body
        o1 == Called(o, Call("parse_request_json_body", "", "", at))
    IN IF ~IsSome(buffers) THEN [o |-> o1, r |-> [ok |-> TRUE, v |-> VNull]]
       ELSE LET parsed == from_slice(concat(buffers.v))
            IN [o |-> o1,
                r |-> IF parsed.ok THEN parsed
                      ELSE [ok |-> FALSE,
                            err |-> JsonParseError("failed to parse request body as json")]]

parse_request_json_body(o, at) ==
    LET buffers == o.envoy_filter.buffered_request_body
        o1 == Called(o, Call("parse_request_json_body", "", "", at))
    IN IF ~IsSome(buffers) THEN [o |-> o1, r |-> [ok |-> TRUE, v |-> VNull]]
       ELSE IF buffers.v = <<>> THEN [o |-> o1, r |-> [ok |-> TRUE, v |-> VNull]]
       ELSE LET parsed == from_slice(concat(buffers.v))
            IN [o |-> o1,
                r |-> IF parsed.ok THEN parsed
                      ELSE [ok |-> FALSE,
                            err |-> JsonParseError("failed to parse request body as json")]]

get_request_body(o, at) ==
    LET buffers == o.envoy_filter.buffered_request_body
    IN [o |-> Called(o, Call("get_request_body", "", "", at)),
        r |-> IF IsSome(buffers) THEN concat(buffers.v) ELSE ""]

drain_request_body(o, at) ==
    Called([o EXCEPT !.envoy_filter.buffered_request_body = Drained(@)],
           Call("drain_request_body", "", "", at))

append_request_body(o, data, at) ==
    Called([o EXCEPT !.envoy_filter.buffered_request_body = Appended(@, data)],
           Call("append_request_body", "", data, at))

add_response_header(o, key, value, at) ==
    Called([o EXCEPT !.envoy_filter.response_headers = HeaderAdd(@, key, value)],
           Call("add_response_header", key, value, at))

set_response_header(o, key, value, at) ==
    Called([o EXCEPT !.envoy_filter.response_headers = HeaderSet(@, key, value)],
           Call("set_response_header", key, value, at))

remove_response_header(o, key, at) ==
    Called([o EXCEPT !.envoy_filter.response_headers = HeaderRemove(@, key)],
           Call("remove_response_header", key, "", at))

\* The body of get_response_body, without the record of the call.
ReadResponseBody(o) ==
    LET buffered == o.envoy_filter.buffered_response_body
        received == o.envoy_filter.received_response_body
        buffers == IF IsSome(buffered) THEN buffered ELSE received
        used == ~IsSome(buffered) /\ IsSome(received)
    IN [o |-> [o EXCEPT !.used_received_response_body = Some(used)],
        r |-> IF IsSome(buffers) THEN concat(buffers.v) ELSE ""]

get_response_body(o, at) ==
    LET g == ReadResponseBody(o)
    IN [o |-> Called(g.o, Call("get_response_body", "", "", at)), r |-> g.r]

parse_response_json_body(o, at) ==
    LET g == ReadResponseBody(o)
        o1 == Called(g.o, Call("parse_response_json_body", "", "", at))
    IN IF g.r = "" THEN [o |-> o1, r |-> [ok |-> TRUE, v |-> VNull]]
       ELSE LET parsed == from_slice(g.r)
            IN [o |-> o1,
                r |-> IF parsed.ok THEN parsed
                      ELSE [ok |-> FALSE,
                            err |-> JsonParseError("failed to parse response body as json")]]

drain_response_body(o, at) ==
    LET e == o.envoy_filter
        detected ==
            IF ~IsSome(o.used_received_response_body)
            THEN Some(~IsSome(e.buffered_response_body)
                      /\ IsSome(e.received_response_body))
            ELSE o.used_received_response_body
        o1 == [o EXCEPT !.used_received_response_body = detected]
    IN Called(IF detected.v
              THEN [o1 EXCEPT !.envoy_filter.received_response_body = Drained(@)]
              ELSE [o1 EXCEPT !.envoy_filter.buffered_response_body = Drained(@)],
              Call("drain_response_body", "", "", at))

\* Variant of append_response_body that always appends to the buffered
\* response body.
append_response_body_Buffered(o, data, at) ==
    Called([o EXCEPT !.envoy_filter.buffered_response_body = Appended(@, data)],
           Call("append_response_body", "", data, at))

append_response_body(o, data, at) ==
    LET used == IF IsSome(o.used_received_response_body)
                THEN o.used_received_response_body.v ELSE FALSE
    IN Called(IF used
              THEN [o EXCEPT !.envoy_filter.received_response_body = Appended(@, data)]
              ELSE [o EXCEPT !.envoy_filter.buffered_response_body = Appended(@, data)],
              Call("append_response_body", "", data, at))

---------------------------------------------------------------------------
(* The orchestrator (jinja.rs): transform_request and transform_response.  *)
(* An orchestration carries the ops object o, the error list, the list of  *)
(* render calls made, and ret: the early return, when there is one.        *)
(* Every call and render is recorded with the place <<phase, index>> of    *)
(* the code that made it.                                                   *)

REQUEST == "request"

RESPONSE == "response"

HeadersValue(map) == VMap([n \in DOMAIN map |-> VStr(map[n])])

add_header(side, o, key, value, at) ==
    IF side = REQUEST THEN add_request_header(o, key, value, at)
    ELSE add_response_header(o, key, value, at)

set_header(side, o, key, value, at) ==
    IF side = REQUEST THEN set_request_header(o, key, value, at)
    ELSE set_response_header(o, key, value, at)

remove_header(side, o, key, at) ==
    IF side = REQUEST THEN remove_request_header(o, key, at)
    ELSE remove_response_header(o, key, at)

parse_json_body(side, o, at) ==
    IF side = REQUEST THEN parse_request_json_body(o, at)
    ELSE parse_response_json_body(o, at)

get_body(side, o, at) ==
    IF side = REQUEST THEN get_request_body(o, at) ELSE get_response_body(o, at)

\* Variant of drain_body that drains the body of a request only.
drain_body_RequestOnly(side, o, at) ==
    IF side = REQUEST THEN drain_request_body(o, at) ELSE o

drain_body(side, o, at) ==
    IF side = REQUEST THEN drain_request_body(o, at) ELSE drain_response_body(o, at)

append_body(side, o, data, at) ==
    IF side = REQUEST THEN append_request_body(o, data, at)
    ELSE append_response_body(o, data, at)

BodyTemplateKey(side) ==
    IF side = REQUEST THEN REQUEST_BODY_TEMPLATE_LOOKUP_KEY
    ELSE RESPONSE_BODY_TEMPLATE_LOOKUP_KEY

\* A render as the orchestration made it; issued is the number of host
\* calls made before it.
RenderCall(key, template, parsed, at, r, issued) ==
    [key |-> key, template |-> template, parsed_body_as_json |-> parsed,
     at |-> at, r |-> r, issued |-> issued]

\* Variant of JsonContext that binds the context() key for objects only.
JsonContext_ObjectsOnly(m, body_transform, json_body) ==
    IF json_body.k = "map"
    THEN json_body.m @@ (IF ContainsContextCall(body_transform.value)
                         THEN Insert(m, STATE_LOOKUP_KEY_CONTEXT, json_body) ELSE m)
    ELSE m

\* The context the JSON step leaves: the parsed value under the context()
\* key when the body template names context(), then the top-level fields of
\* an object.
JsonContext(m, body_transform, json_body) ==
    LET m1 == IF ContainsContextCall(body_transform.value)
              THEN Insert(m, STATE_LOOKUP_KEY_CONTEXT, json_body) ELSE m
    IN IF json_body.k = "map" THEN json_body.m @@ m1 ELSE m1

\* Variant of BuildContext in which a failed parse of the body is taken for
\* a body that was not parsed, and the orchestration goes on.
BuildContext_IgnoreParseFailure(side, transform, m0, o0) ==
    LET wants_json == IsSome(transform.body) /\ transform.body.v.parse_as = AsJson
        p == IF wants_json THEN parse_json_body(side, o0, <<"context", 1>>)
             ELSE [o |-> o0, r |-> [ok |-> TRUE, v |-> VNull]]
        nonnull == wants_json /\ p.r.ok /\ p.r.v # VNull
        m1 == IF nonnull THEN JsonContext(m0, transform.body.v, p.r.v) ELSE m0
    IN [o |-> p.o, m |-> m1, parsed_body_as_json |-> nonnull, ret |-> None]

\* Variant of BuildContext that does not fetch the raw body when the body
\* was parsed as JSON.
BuildContext_NoFetchWhenParsed(side, transform, m0, o0) ==
    LET wants_json == IsSome(transform.body) /\ transform.body.v.parse_as = AsJson
        p == IF wants_json THEN parse_json_body(side, o0, <<"context", 1>>)
             ELSE [o |-> o0, r |-> [ok |-> TRUE, v |-> VNull]]
    IN IF ~p.r.ok
       THEN [o |-> p.o, m |-> m0, parsed_body_as_json |-> FALSE, ret |-> Some(Err(p.r.err))]
       ELSE LET nonnull == wants_json /\ p.r.v # VNull
                m1 == IF nonnull THEN JsonContext(m0, transform.body.v, p.r.v) ELSE m0
                wants_body == IsSome(transform.body)
                              /\ ContainsBodyCall(transform.body.v.value)
                              /\ ~nonnull
                g == IF wants_body THEN get_body(side, p.o, <<"context", 2>>)
                     ELSE [o |-> p.o, r |-> ""]
                m2 == IF wants_body THEN Insert(m1, STATE_LOOKUP_KEY_BODY, VStr(g.r)) ELSE m1
            IN [o |-> g.o, m |-> m2, parsed_body_as_json |-> nonnull, ret |-> None]

\* Variant of BuildContext whose flag says that the JSON parse was asked
\* for, whatever value the parse returned.
BuildContext_FlagWhenRequested(side, transform, m0, o0) ==
    LET wants_json == IsSome(transform.body) /\ transform.body.v.parse_as = AsJson
        p == IF wants_json THEN parse_json_body(side, o0, <<"context", 1>>)
             ELSE [o |-> o0, r |-> [ok |-> TRUE, v |-> VNull]]
    IN IF ~p.r.ok
       THEN [o |-> p.o, m |-> m0, parsed_body_as_json |-> FALSE, ret |-> Some(Err(p.r.err))]
       ELSE LET nonnull == wants_json /\ p.r.v # VNull
                m1 == IF nonnull THEN JsonContext(m0, transform.body.v, p.r.v) ELSE m0
                wants_body == IsSome(transform.body)
                              /\ ContainsBodyCall(transform.body.v.value)
                g == IF wants_body THEN get_body(side, p.o, <<"context", 2>>)
                     ELSE [o |-> p.o, r |-> ""]
                m2 == IF wants_body THEN Insert(m1, STATE_LOOKUP_KEY_BODY, VStr(g.r)) ELSE m1
            IN [o |-> g.o, m |-> m2, parsed_body_as_json |-> wants_json, ret |-> None]

\* Context building.  [o, m, parsed_body_as_json, ret]
BuildContext(side, transform, m0, o0) ==
    LET wants_json == IsSome(transform.body) /\ transform.body.v.parse_as = AsJson
        p == IF wants_json THEN parse_json_body(side, o0, <<"context", 1>>)
             ELSE [o |-> o0, r |-> [ok |-> TRUE, v |-> VNull]]
    IN IF ~p.r.ok
       THEN [o |-> p.o, m |-> m0, parsed_body_as_json |-> FALSE, ret |-> Some(Err(p.r.err))]
       ELSE LET nonnull == wants_json /\ p.r.v # VNull
                m1 == IF nonnull THEN JsonContext(m0, transform.body.v, p.r.v) ELSE m0
                wants_body == IsSome(transform.body)
                              /\ ContainsBodyCall(transform.body.v.value)
                g == IF wants_body THEN get_body(side, p.o, <<"context", 2>>)
                     ELSE [o |-> p.o, r |-> ""]
                m2 == IF wants_body THEN Insert(m1, STATE_LOOKUP_KEY_BODY, VStr(g.r)) ELSE m1
            IN [o |-> g.o, m |-> m2, parsed_body_as_json |-> nonnull, ret |-> None]

\* Variant of BodyRewrite that does not drain the body before it appends.
BodyRewrite_NoDrain(side, rc, transform, s) ==
    IF ~(IsSome(transform.body) /\ transform.body.v.value # "") THEN s
    ELSE LET at == <<"body", 1>>
             value == transform.body.v.value
         IN Bind(render(rc.env, rc.ctx, BodyTemplateKey(side), value,
                        rc.parsed_body_as_json),
                 LAMBDA r :
                    [s EXCEPT
                       !.errors = IF r.ok THEN @ ELSE Append(@, r.err),
                       !.renders = Append(@, RenderCall(BodyTemplateKey(side), value,
                                                        rc.parsed_body_as_json, at, r,
                                                        Len(s.o.calls))),
                       !.o = IF r.ok /\ r.s # ""
                             THEN append_body(side,
                                      set_header(side, @, "content-length",
                                                 to_string(Len(r.s)), at),
                                      r.s, at)
                             ELSE remove_header(side,
                                      set_header(side, @, "content-length", "0", at),
                                      "content-type", at)])

\* Variant of BodyRewrite that leaves content-type in place when the body
\* is removed.
BodyRewrite_KeepsContentType(side, rc, transform, s) ==
    IF ~(IsSome(transform.body) /\ transform.body.v.value # "") THEN s
    ELSE LET at == <<"body", 1>>
             value == transform.body.v.value
             o1 == drain_body(side, s.o, at)
         IN Bind(render(rc.env, rc.ctx, BodyTemplateKey(side), value,
                        rc.parsed_body_as_json),
                 LAMBDA r :
                    [s EXCEPT
                       !.errors = IF r.ok THEN @ ELSE Append(@, r.err),
                       !.renders = Append(@, RenderCall(BodyTemplateKey(side), value,
                                                        rc.parsed_body_as_json, at, r,
                                                        Len(o1.calls))),
                       !.o = IF r.ok /\ r.s # ""
                             THEN append_body(side,
                                      set_header(side, o1, "content-length",
                                                 to_string(Len(r.s)), at),
                                      r.s, at)
                             ELSE set_header(side, o1, "content-length", "0", at)])

\* Variant of BodyRewrite that returns the error of a failed render at once.
BodyRewrite_AbortsOnFailure(side, rc, transform, s) ==
    IF ~(IsSome(transform.body) /\ transform.body.v.value # "") THEN s
    ELSE LET at == <<"body", 1>>
             value == transform.body.v.value
             o1 == drain_body(side, s.o, at)
         IN Bind(render(rc.env, rc.ctx, BodyTemplateKey(side), value,
                        rc.parsed_body_as_json),
                 LAMBDA r :
                    LET renders == Append(s.renders,
                                          RenderCall(BodyTemplateKey(side), value,
                                                     rc.parsed_body_as_json, at, r,
                                                     Len(o1.calls)))
                    IN IF ~r.ok
                       THEN [s EXCEPT !.renders = renders, !.o = o1,
                                      !.ret = Some(Err(r.err))]
                       ELSE [s EXCEPT
                               !.renders = renders,
                               !.o = IF r.s # ""
                                     THEN append_body(side,
                                              set_header(side, o1, "content-length",
                                                         to_string(Len(r.s)), at),
                                              r.s, at)
                                     ELSE remove_header(side,
                                              set_header(side, o1, "content-length", "0", at),
                                              "content-type", at)])

\* Variant of BodyRewrite that renders the template first and drains the
\* body afterwards.
BodyRewrite_RendersFirst(side, rc, transform, s) ==
    IF ~(IsSome(transform.body) /\ transform.body.v.value # "") THEN s
    ELSE LET at == <<"body", 1>>
             value == transform.body.v.value
         IN Bind(render(rc.env, rc.ctx, BodyTemplateKey(side), value,
                        rc.parsed_body_as_json),
                 LAMBDA r :
                    LET o1 == drain_body(side, s.o, at)
                    IN [s EXCEPT
                          !.errors = IF r.ok THEN @ ELSE Append(@, r.err),
                          !.renders = Append(@, RenderCall(BodyTemplateKey(side), value,
                                                           rc.parsed_body_as_json, at, r,
                                                           Len(s.o.calls))),
                          !.o = IF r.ok /\ r.s # ""
                                THEN append_body(side,
                                         set_header(side, o1, "content-length",
                                                    to_string(Len(r.s)), at),
                                         r.s, at)
                                ELSE remove_header(side,
                                         set_header(side, o1, "content-length", "0", at),
                                         "content-type", at)])

\* The body rewrite.
BodyRewrite(side, rc, transform, s) ==
    IF ~(IsSome(transform.body) /\ transform.body.v.value # "") THEN s
    ELSE LET at == <<"body", 1>>
             value == transform.body.v.value
             o1 == drain_body(side, s.o, at)
         IN Bind(render(rc.env, rc.ctx, BodyTemplateKey(side), value,
                        rc.parsed_body_as_json),
                 LAMBDA r :
                    [s EXCEPT
                       !.errors = IF r.ok THEN @ ELSE Append(@, r.err),
                       !.renders = Append(@, RenderCall(BodyTemplateKey(side), value,
                                                        rc.parsed_body_as_json, at, r,
                                                        Len(o1.calls))),
                       !.o = IF r.ok /\ r.s # ""
                             THEN append_body(side,
                                      set_header(side, o1, "content-length",
                                                 to_string(Len(r.s)), at),
                                      r.s, at)
                             ELSE remove_header(side,
                                      set_header(side, o1, "content-length", "0", at),
                                      "content-type", at)])

\* Variant of SetEntry in which the undeclared-variable failure is recorded
\* like every other failure.
SetEntry_NoAbort(side, rc, set, i, s) ==
    LET at == <<"set", i>>
        key == set[i].name
        value == set[i].value
    IN IF value = "" THEN [s EXCEPT !.o = remove_header(side, @, key, at)]
       ELSE Bind(render(rc.env, rc.ctx, value, value, rc.parsed_body_as_json),
                 LAMBDA r :
                    [s EXCEPT
                       !.renders = Append(@, RenderCall(value, value,
                                                        rc.parsed_body_as_json, at, r,
                                                        Len(s.o.calls))),
                       !.errors = IF r.ok THEN @ ELSE Append(@, r.err),
                       !.o = IF r.ok /\ r.s # ""
                             THEN set_header(side, @, key, r.s, at)
                             ELSE remove_header(side, @, key, at)])

\* Variant of SetEntry that leaves the header alone when the render fails.
SetEntry_KeepsStale(side, rc, set, i, s) ==
    LET at == <<"set", i>>
        key == set[i].name
        value == set[i].value
    IN IF value = "" THEN [s EXCEPT !.o = remove_header(side, @, key, at)]
       ELSE Bind(render(rc.env, rc.ctx, value, value, rc.parsed_body_as_json),
                 LAMBDA r :
                    LET renders == Append(s.renders,
                                          RenderCall(value, value,
                                                     rc.parsed_body_as_json, at, r,
                                                     Len(s.o.calls)))
                    IN IF ~r.ok /\ IsTransformationError(r.err)
                       THEN [s EXCEPT !.renders = renders, !.ret = Some(Err(r.err))]
                       ELSE [s EXCEPT
                               !.renders = renders,
                               !.errors = IF r.ok THEN @ ELSE Append(@, r.err),
                               !.o = IF r.ok /\ r.s # ""
                                     THEN set_header(side, @, key, r.s, at)
                                     ELSE IF r.ok THEN remove_header(side, @, key, at)
                                     ELSE @])

\* Variant of SetEntry that sets the header to an empty rendered string.
SetEntry_SetsEmpty(side, rc, set, i, s) ==
    LET at == <<"set", i>>
        key == set[i].name
        value == set[i].value
    IN IF value = "" THEN [s EXCEPT !.o = remove_header(side, @, key, at)]
       ELSE Bind(render(rc.env, rc.ctx, value, value, rc.parsed_body_as_json),
                 LAMBDA r :
                    LET renders == Append(s.renders,
                                          RenderCall(value, value,
                                                     rc.parsed_body_as_json, at, r,
                                                     Len(s.o.calls)))
                    IN IF ~r.ok /\ IsTransformationError(r.err)
                       THEN [s EXCEPT !.renders = renders, !.ret = Some(Err(r.err))]
                       ELSE [s EXCEPT
                               !.renders = renders,
                               !.errors = IF r.ok THEN @ ELSE Append(@, r.err),
                               !.o = IF r.ok
                                     THEN set_header(side, @, key, r.s, at)
                                     ELSE remove_header(side, @, key, at)])

\* One pass of the loop over transform.set: entry i.
SetEntry(side, rc, set, i, s) ==
    LET at == <<"set", i>>
        key == set[i].name
        value == set[i].value
    IN IF value = "" THEN [s EXCEPT !.o = remove_header(side, @, key, at)]
       ELSE Bind(render(rc.env, rc.ctx, value, value, rc.parsed_body_as_json),
                 LAMBDA r :
                    LET renders == Append(s.renders,
                                          RenderCall(value, value,
                                                     rc.parsed_body_as_json, at, r,
                                                     Len(s.o.calls)))
                    IN IF ~r.ok /\ IsTransformationError(r.err)
                       THEN [s EXCEPT !.renders = renders, !.ret = Some(Err(r.err))]
                       ELSE [s EXCEPT
                               !.renders = renders,
                               !.errors = IF r.ok THEN @ ELSE Append(@, r.err),
                               !.o = IF r.ok /\ r.s # ""
                                     THEN set_header(side, @, key, r.s, at)
                                     ELSE remove_header(side, @, key, at)])

\* The loop over transform.set, from entry i on; it ends at an early return.
RECURSIVE SetLoop(_, _, _, _, _)
SetLoop(side, rc, set, i, s) ==
    IF i > Len(set) \/ IsSome(s.ret) THEN s
    ELSE Bind(SetEntry(side, rc, set, i, s),
              LAMBDA s1 : SetLoop(side, rc, set, i + 1, s1))

\* Variant of AddEntry that treats a failed or empty render as SetEntry does.
AddEntry_RemovesOnFailure(side, rc, add, i, s) ==
    LET at == <<"add", i>>
        key == add[i].name
        value == add[i].value
    IN IF value = "" THEN s
       ELSE Bind(render(rc.env, rc.ctx, value, value, rc.parsed_body_as_json),
                 LAMBDA r :
                    LET renders == Append(s.renders,
                                          RenderCall(value, value,
                                                     rc.parsed_body_as_json, at, r,
                                                     Len(s.o.calls)))
                    IN IF ~r.ok /\ IsTransformationError(r.err)
                       THEN [s EXCEPT !.renders = renders, !.ret = Some(Err(r.err))]
                       ELSE [s EXCEPT
                               !.renders = renders,
                               !.errors = IF r.ok THEN @ ELSE Append(@, r.err),
                               !.o = IF r.ok /\ r.s # ""
                                     THEN add_header(side, @, key, r.s, at)
                                     ELSE remove_header(side, @, key, at)])

\* One pass of the loop over transform.add: entry i.
AddEntry(side, rc, add, i, s) ==
    LET at == <<"add", i>>
        key == add[i].name
        value == add[i].value
    IN IF value = "" THEN s
       ELSE Bind(render(rc.env, rc.ctx, value, value, rc.parsed_body_as_json),
                 LAMBDA r :
                    LET renders == Append(s.renders,
                                          RenderCall(value, value,
                                                     rc.parsed_body_as_json, at, r,
                                                     Len(s.o.calls)))
                    IN IF ~r.ok /\ IsTransformationError(r.err)
                       THEN [s EXCEPT !.renders = renders, !.ret = Some(Err(r.err))]
                       ELSE [s EXCEPT
                               !.renders = renders,
                               !.errors = IF r.ok THEN @ ELSE Append(@, r.err),
                               !.o = IF r.ok /\ r.s # ""
                                     THEN add_header(side, @, key, r.s, at)
                                     ELSE @])

\* The loop over transform.add, from entry i on; it ends at an early return.
RECURSIVE AddLoop(_, _, _, _, _)
AddLoop(side, rc, add, i, s) ==
    IF i > Len(add) \/ IsSome(s.ret) THEN s
    ELSE Bind(AddEntry(side, rc, add, i, s),
              LAMBDA s1 : AddLoop(side, rc, add, i + 1, s1))

\* The loop over transform.remove, from entry i on.
RECURSIVE RemoveLoop(_, _, _, _)
RemoveLoop(side, remove, i, s) ==
    IF i > Len(remove) THEN s
    ELSE RemoveLoop(side, remove, i + 1,
                    [s EXCEPT !.o = remove_header(side, @, remove[i], <<"remove", i>>)])

\* The last statement: combine_errors on the errors collected.
Finish(side, s) ==
    [s EXCEPT !.ret = Some(combine_errors(IF side = REQUEST THEN "transform_request()"
                                          ELSE "transform_response()", s.errors))]

\* Variant of Phases with the add loop before the set loop.
Phases_AddFirst(side, rc, transform, s0) ==
    Bind(BodyRewrite(side, rc, transform, s0), LAMBDA s1 :
    Bind(AddLoop(side, rc, transform.add, 1, s1), LAMBDA s2 :
        IF IsSome(s2.ret) THEN s2
        ELSE Bind(SetLoop(side, rc, transform.set, 1, s2), LAMBDA s3 :
                IF IsSome(s3.ret) THEN s3
                ELSE Bind(RemoveLoop(side, transform.remove, 1, s3), LAMBDA s4 :
                        Finish(side, s4)))))

\* Variant of Phases with the remove loop before the set and add loops.
Phases_RemoveFirst(side, rc, transform, s0) ==
    Bind(BodyRewrite(side, rc, transform, s0), LAMBDA s1 :
    Bind(RemoveLoop(side, transform.remove, 1, s1), LAMBDA s2 :
    Bind(SetLoop(side, rc, transform.set, 1, s2), LAMBDA s3 :
        IF IsSome(s3.ret) THEN s3
        ELSE Bind(AddLoop(side, rc, transform.add, 1, s3), LAMBDA s4 :
                IF IsSome(s4.ret) THEN s4
                ELSE Finish(side, s4)))))

\* The phases after context building, in the order of the code; an early
\* return of the set loop or of the add loop ends the orchestration.
Phases(side, rc, transform, s0) ==
    Bind(BodyRewrite(side, rc, transform, s0), LAMBDA s1 :
    Bind(SetLoop(side, rc, transform.set, 1, s1), LAMBDA s2 :
        IF IsSome(s2.ret) THEN s2
        ELSE Bind(AddLoop(side, rc, transform.add, 1, s2), LAMBDA s3 :
                IF IsSome(s3.ret) THEN s3
                ELSE Bind(RemoveLoop(side, transform.remove, 1, s3), LAMBDA s4 :
                        Finish(side, s4)))))

\* Variant of Orchestrate whose error list is the one the last orchestration
\* left.
Orchestrate_KeepsErrors(side, env, transform, m0, ops) ==
    Bind(BuildContext(side, transform, m0, ops), LAMBDA b :
    Bind([o |-> b.o, errors |-> IF run.side = "none" THEN <<>> ELSE run.errors,
          renders |-> <<>>, ret |-> b.ret,
          ctx |-> b.m, parsed_body_as_json |-> b.parsed_body_as_json], LAMBDA s0 :
        IF IsSome(s0.ret) THEN s0
        ELSE Phases(side,
                    [env |-> env, ctx |-> b.m,
                     parsed_body_as_json |-> b.parsed_body_as_json],
                    transform, s0)))

\* The body of transform_request / transform_response after the two header
\* maps were put into m0.
\* Variant of Orchestrate in which an abort by the undeclared-variable
\* error returns the failures recorded before it together with it.
Orchestrate_ReturnsAllErrors(side, env, transform, m0, ops) ==
    Bind(BuildContext(side, transform, m0, ops), LAMBDA b :
    Bind([o |-> b.o, errors |-> <<>>, renders |-> <<>>, ret |-> b.ret,
          ctx |-> b.m, parsed_body_as_json |-> b.parsed_body_as_json], LAMBDA s0 :
        IF IsSome(s0.ret) THEN s0
        ELSE Bind(Phases(side,
                         [env |-> env, ctx |-> b.m,
                          parsed_body_as_json |-> b.parsed_body_as_json],
                         transform, s0), LAMBDA s :
                IF ~s.ret.v.ok /\ IsTransformationError(s.ret.v.err) /\ s.errors # <<>>
                THEN [s EXCEPT !.ret = Some(combine_errors(
                                               IF side = REQUEST THEN "transform_request()"
                                               ELSE "transform_response()",
                                               Append(s.errors, s.ret.v.err)))]
                ELSE s)))

\* Variant of Orchestrate that gives the message back as it was when a
\* header entry aborts with the undeclared-variable error.
Orchestrate_RollsBack(side, env, transform, m0, ops) ==
    Bind(BuildContext(side, transform, m0, ops), LAMBDA b :
    Bind([o |-> b.o, errors |-> <<>>, renders |-> <<>>, ret |-> b.ret,
          ctx |-> b.m, parsed_body_as_json |-> b.parsed_body_as_json], LAMBDA s0 :
        IF IsSome(s0.ret) THEN s0
        ELSE Bind(Phases(side,
                         [env |-> env, ctx |-> b.m,
                          parsed_body_as_json |-> b.parsed_body_as_json],
                         transform, s0), LAMBDA s :
                IF ~s.ret.v.ok /\ IsTransformationError(s.ret.v.err)
                THEN [s EXCEPT !.o.envoy_filter = ops.envoy_filter]
                ELSE s)))

Orchestrate(side, env, transform, m0, ops) ==
    Bind(BuildContext(side, transform, m0, ops), LAMBDA b :
    Bind([o |-> b.o, errors |-> <<>>, renders |-> <<>>, ret |-> b.ret,
          ctx |-> b.m, parsed_body_as_json |-> b.parsed_body_as_json], LAMBDA s0 :
        IF IsSome(s0.ret) THEN s0
        ELSE Phases(side,
                    [env |-> env, ctx |-> b.m,
                     parsed_body_as_json |-> b.parsed_body_as_json],
                    transform, s0)))

transform_request(env, transform, request_headers_map, ops) ==
    Orchestrate(REQUEST, env, transform,
                Insert(Insert(EmptyMap, STATE_LOOKUP_KEY_HEADERS,
                              HeadersValue(request_headers_map)),
                       STATE_LOOKUP_KEY_REQ_HEADERS, HeadersValue(request_headers_map)),
                ops)

\* Variant of transform_response that binds the request headers for header().
transform_response_RequestHeaders(env, transform, request_headers_map, response_headers_map, ops) ==
    Orchestrate(RESPONSE, env, transform,
                Insert(Insert(EmptyMap, STATE_LOOKUP_KEY_HEADERS,
                              HeadersValue(request_headers_map)),
                       STATE_LOOKUP_KEY_REQ_HEADERS, HeadersValue(request_headers_map)),
                ops)

transform_response(env, transform, request_headers_map, response_headers_map, ops) ==
    Orchestrate(RESPONSE, env, transform,
                Insert(Insert(EmptyMap, STATE_LOOKUP_KEY_HEADERS,
                              HeadersValue(response_headers_map)),
                       STATE_LOOKUP_KEY_REQ_HEADERS, HeadersValue(request_headers_map)),
                ops)

---------------------------------------------------------------------------
(* The Filter (http_simple_mutations.rs) *)

\* The per-route configuration object of another filter type: downcast_ref
\* to PerRouteConfig fails on it.
WrongRouteConfigType == [wrong_type |-> TRUE]

\* new_http_filter
new_http_filter(filter_config) ==
    [filter_config |-> filter_config,
     per_route_config |-> None,
     request_headers_map |-> None]

set_per_route_config(f, envoy_filter) ==
    IF IsSome(f.per_route_config) THEN f
    ELSE IF ~IsSome(envoy_filter.route_config) THEN f
    ELSE IF envoy_filter.route_config.v = WrongRouteConfigType THEN f
    ELSE [f EXCEPT !.per_route_config = Some(envoy_filter.route_config.v)]

\* Variant of get_env that always gives the registry of the filter-level
\* configuration.
get_env_FilterLevel(f) == f.filter_config.env

get_env(f) ==
    IF IsSome(f.per_route_config) THEN f.per_route_config.v.env
    ELSE f.filter_config.env

\* Variant of populate_request_headers_map that reads the headers again at
\* every call.
populate_request_headers_map_EveryTime(f, headers) ==
    [f EXCEPT !.request_headers_map = Some(create_headers_map(headers))]

populate_request_headers_map(f, headers) ==
    IF ~IsSome(f.request_headers_map)
    THEN [f EXCEPT !.request_headers_map = Some(create_headers_map(headers))]
    ELSE f

get_request_headers_map(f) ==
    IF IsSome(f.request_headers_map) THEN f.request_headers_map.v ELSE EmptyMap

get_request_transform(f) ==
    IF IsSome(f.per_route_config) THEN f.per_route_config.v.transformations.request
    ELSE f.filter_config.transformations.request

\* Variant of has_request_transform that takes every configured transform.
has_request_transform_IgnoresEmpty(f) == IsSome(get_request_transform(f))

has_request_transform(f) ==
    LET t == get_request_transform(f)
    IN IF ~IsSome(t) THEN FALSE ELSE ~LocalTransform_is_empty(t.v)

get_response_transform(f) ==
    IF IsSome(f.per_route_config) THEN f.per_route_config.v.transformations.response
    ELSE f.filter_config.transformations.response

has_response_transform(f) ==
    LET t == get_response_transform(f)
    IN IF ~IsSome(t) THEN FALSE ELSE ~LocalTransform_is_empty(t.v)

\* EnvoyHttpFilter::send_response(status, ..)
send_response(envoy_filter, code) ==
    [envoy_filter EXCEPT !.local_replies = Append(@, code)]

\* Variant of HandleResult without the branch for serde_json errors.
HandleResult_OnlyUndeclared(envoy_filter, ret) ==
    IF ret.ok THEN [envoy |-> envoy_filter, ok |-> TRUE]
    ELSE IF IsTransformationError(ret.err)
         THEN [envoy |-> send_response(envoy_filter, 400), ok |-> FALSE]
    ELSE [envoy |-> envoy_filter, ok |-> TRUE]

\* What the filter does with the orchestrator's result: [envoy, ok]
HandleResult(envoy_filter, ret) ==
    IF ret.ok THEN [envoy |-> envoy_filter, ok |-> TRUE]
    ELSE IF IsTransformationError(ret.err)
         THEN [envoy |-> send_response(envoy_filter, 400), ok |-> FALSE]
    ELSE IF IsSerdeJsonError(ret.err)
         THEN [envoy |-> send_response(envoy_filter, 400), ok |-> FALSE]
    ELSE [envoy |-> envoy_filter, ok |-> TRUE]

NoRun == [side |-> "none"]

RunRecord(side, transform, reqmap, respmap, before, s) ==
    [side |-> side, transform |-> transform,
     request_headers_map |-> reqmap, response_headers_map |-> respmap,
     before |-> before, after |-> s.o.envoy_filter,
     used_received_response_body |-> s.o.used_received_response_body,
     calls |-> s.o.calls, renders |-> s.renders, errors |-> s.errors,
     ret |-> s.ret.v, ctx |-> s.ctx, parsed_body_as_json |-> s.parsed_body_as_json]

\* Filter::transform_request: [envoy, ok, run]
Filter_transform_request(f, envoy_filter) ==
    LET t == get_request_transform(f)
    IN IF ~IsSome(t) THEN [envoy |-> envoy_filter, ok |-> TRUE, run |-> NoRun]
       ELSE Bind(transform_request(get_env(f), t.v, get_request_headers_map(f),
                                   EnvoyTransformationOps_new(envoy_filter)),
                 LAMBDA s :
                    LET h == HandleResult(s.o.envoy_filter, s.ret.v)
                    IN [envoy |-> h.envoy, ok |-> h.ok,
                        run |-> RunRecord(REQUEST, t.v, get_request_headers_map(f),
                                          EmptyMap, envoy_filter, s)])

\* Filter::transform_response: [envoy, ok, run]
Filter_transform_response(f, envoy_filter) ==
    LET t == get_response_transform(f)
    IN IF ~IsSome(t) THEN [envoy |-> envoy_filter, ok |-> TRUE, run |-> NoRun]
       ELSE LET response_headers_map == create_headers_map(envoy_filter.response_headers)
            IN Bind(transform_response(get_env(f), t.v, get_request_headers_map(f),
                                       response_headers_map,
                                       EnvoyTransformationOps_new(envoy_filter)),
                    LAMBDA s :
                       LET h == HandleResult(s.o.envoy_filter, s.ret.v)
                       IN [envoy |-> h.envoy, ok |-> h.ok,
                           run |-> RunRecord(RESPONSE, t.v, get_request_headers_map(f),
                                             response_headers_map, envoy_filter, s)])

Continue == "Continue"

StopIteration == "StopIteration"

StopIterationAndBuffer == "StopIterationAndBuffer"

Returned(callback, end_of_stream, ret, ran) ==
    [callback |-> callback, end_of_stream |-> end_of_stream, ret |-> ret, ran |-> ran]

\* Variant of Callback that transforms in every callback, whether the
\* stream has ended or not.
Callback_TransformsEarly(side, callback, end_of_stream, stop) ==
    LET f1 == set_per_route_config(filter, envoy)
        has == IF side = REQUEST THEN has_request_transform(f1)
               ELSE has_response_transform(f1)
    IN IF ~has
       THEN /\ filter' = f1
            /\ status' = Returned(callback, end_of_stream, Continue, FALSE)
            /\ UNCHANGED <<envoy, run>>
       ELSE LET f2 == populate_request_headers_map(f1, envoy.request_headers)
            IN \E t \in {IF side = REQUEST THEN Filter_transform_request(f2, envoy)
                         ELSE Filter_transform_response(f2, envoy)} :
                  /\ filter' = f2
                  /\ envoy' = t.envoy
                  /\ run' = t.run
                  /\ status' = Returned(callback, end_of_stream,
                                        IF t.ok THEN Continue ELSE stop, TRUE)

\* The common body of the four callbacks; stop is the callback's stop status.
Callback(side, callback, end_of_stream, stop) ==
    LET f1 == set_per_route_config(filter, envoy)
        has == IF side = REQUEST THEN has_request_transform(f1)
               ELSE has_response_transform(f1)
    IN IF ~has
       THEN /\ filter' = f1
            /\ status' = Returned(callback, end_of_stream, Continue, FALSE)
            /\ UNCHANGED <<envoy, run>>
       ELSE IF ~end_of_stream
       THEN /\ filter' = f1
            /\ status' = Returned(callback, end_of_stream, stop, FALSE)
            /\ UNCHANGED <<envoy, run>>
       ELSE LET f2 == populate_request_headers_map(f1, envoy.request_headers)
            IN \E t \in {IF side = REQUEST THEN Filter_transform_request(f2, envoy)
                         ELSE Filter_transform_response(f2, envoy)} :
                  /\ filter' = f2
                  /\ envoy' = t.envoy
                  /\ run' = t.run
                  /\ status' = Returned(callback, end_of_stream,
                                        IF t.ok THEN Continue ELSE stop, TRUE)

on_request_headers(end_of_stream) ==
    /\ phase = "request_headers"
    /\ Callback(REQUEST, "on_request_headers", end_of_stream, StopIteration)
    /\ phase' = IF end_of_stream THEN "response_headers" ELSE "request_body"
    /\ UNCHANGED <<lib, evals>>

on_request_body(end_of_stream) ==
    /\ phase = "request_body"
    /\ Callback(REQUEST, "on_request_body", end_of_stream, StopIterationAndBuffer)
    /\ phase' = IF end_of_stream THEN "response_headers" ELSE "request_body"
    /\ UNCHANGED <<lib, evals>>

on_response_headers(end_of_stream) ==
    /\ phase = "response_headers"
    /\ Callback(RESPONSE, "on_response_headers", end_of_stream, StopIteration)
    /\ phase' = IF end_of_stream THEN "done" ELSE "response_body"
    /\ UNCHANGED <<lib, evals>>

on_response_body(end_of_stream) ==
    /\ phase = "response_body"
    /\ Callback(RESPONSE, "on_response_body", end_of_stream, StopIterationAndBuffer)
    /\ phase' = IF end_of_stream THEN "done" ELSE "response_body"
    /\ UNCHANGED <<lib, evals>>

\* No function of the library has been called.
NoCall == [fn |-> "none"]

\* No evaluations in progress.
NoEvals == [shared |-> None]

---------------------------------------------------------------------------
(* The configurations and messages explored *)

MaxEntries == 2

Names == {"x-a", "x-b"}

Pairs ==
    {NameValuePair("x-a", v) : v \in {T_EMPTY, T_LIT, T_JSON_VAR, T_BAD_CALL}}
    \cup {NameValuePair("x-b", T_LIT)}

\* The lengths of the three header lists: at most MaxEntries entries in all.
ListLengths ==
    {l \in [add : 0..MaxEntries, set : 0..MaxEntries, remove : 0..MaxEntries] :
        l.add + l.set + l.remove <= MaxEntries}

\* Transforms that exercise the header lists, with at most MaxEntries
\* entries in all: no body transform, or one that only asks for the JSON
\* parse.
HeaderTransforms ==
    UNION {{LocalTransform(a, s, r, b) :
                a \in [1..l.add -> Pairs], s \in [1..l.set -> Pairs],
                r \in [1..l.remove -> Names],
                b \in {None, Some(BodyTransform(AsJson, T_EMPTY))}} :
           l \in ListLengths}

\* Transforms with one set entry whose template calls a function, is
\* control flow only, or names a JSON variable next to a call that fails.
FunctionTransforms ==
    {LocalTransform(<<>>, <<NameValuePair("x-b", v)>>, <<>>, b) :
        v \in {T_IF, T_HEADER, T_REQ_HEADER, T_VAR_BAD_CALL, T_ENV},
        b \in {None, Some(BodyTransform(AsJson, T_EMPTY))}}

BodyTemplateTexts ==
    {T_EMPTY, T_LIT, T_JSON_VAR, T_BAD_CALL, T_HEADER, T_BODY, T_CONTEXT}

\* Transforms that exercise the body rewrite, alone or followed by entries
\* of the header lists.
BodyTransforms ==
    {LocalTransform(l.add, l.set, l.remove, Some(BodyTransform(p, v))) :
        l \in {[add |-> <<>>, set |-> <<>>, remove |-> <<>>],
               [add |-> <<NameValuePair("content-length", T_LIT)>>,
                set |-> <<>>, remove |-> <<"content-type">>],
               [add |-> <<NameValuePair("x-b", T_LIT)>>,
                set |-> <<NameValuePair("x-a", T_JSON_VAR)>>,
                remove |-> <<"content-length">>]},
        p \in {AsString, AsJson}, v \in BodyTemplateTexts}

\* Transforms with a set entry whose template text is the lookup key of the
\* request body template, with and without a body template.
AliasTransforms ==
    {LocalTransform(<<>>, <<NameValuePair("x-b", T_ALIAS)>>, <<>>,
                    Some(BodyTransform(p, v))) :
        p \in {AsString, AsJson}, v \in {T_EMPTY, T_LIT}}

HeaderLists ==
    {<<>>, << <<"x-a", "hv">>, <<"content-type", "text/plain">> >>}

Bodies ==
    {None, Some(<<>>), Some(<<B_OBJECT>>), Some(<<B_NULL>>), Some(<<B_NUMBER>>),
     Some(<<B_INVALID>>)}

NoBody == [buffered |-> None, received |-> None]

Envoy(request_headers, request_body, response_headers, response_body) ==
    [request_headers |-> request_headers,
     response_headers |-> response_headers,
     buffered_request_body |-> request_body,
     buffered_response_body |-> response_body.buffered,
     received_response_body |-> response_body.received,
     local_replies |-> <<>>,
     route_config |-> None]

\* The bodies tried with a transform of the header lists: one when the
\* transform never touches the body.
HeaderBodies(t) ==
    IF IsSome(t.body)
    THEN {None, Some(<<B_OBJECT>>), Some(<<B_INVALID>>)}
         \cup (IF t \in FunctionTransforms THEN {Some(<<B_ENV>>)} ELSE {})
    ELSE {Some(<<B_OBJECT>>)}

RequestScenario(t, h, b) ==
    [config |-> [request |-> Some(t), response |-> None],
     envoy |-> Envoy(h, b, <<>>, NoBody)]

ResponseScenario(t, h, rb) ==
    [config |-> [request |-> None, response |-> Some(t)],
     envoy |-> Envoy(<< <<"x-a", "rv">> >>, None, h, rb)]

\* A configuration with its message: a request transform with a request, or
\* a response transform with a response, whose body is in the buffered
\* buffer, in the received buffer, or in both.
Scenarios ==
    UNION {{RequestScenario(t, h, b) : h \in HeaderLists, b \in HeaderBodies(t)}
           \cup {ResponseScenario(t, h, [buffered |-> b, received |-> None]) :
                    h \in HeaderLists, b \in HeaderBodies(t)} :
           t \in HeaderTransforms \cup FunctionTransforms}
    \cup {RequestScenario(t, h, b) :
            t \in BodyTransforms, h \in HeaderLists, b \in Bodies}
    \cup {ResponseScenario(t, h, [buffered |-> b, received |-> None]) :
            t \in BodyTransforms, h \in HeaderLists, b \in Bodies}
    \cup {ResponseScenario(t, h, [buffered |-> None, received |-> b]) :
            t \in BodyTransforms, h \in HeaderLists, b \in Bodies}
    \cup {ResponseScenario(t, h, [buffered |-> Some(<<B_OBJECT>>),
                                  received |-> Some(<<B_NUMBER>>)]) :
            t \in BodyTransforms, h \in HeaderLists}

Init ==
    /\ \E sc \in Scenarios :
          /\ filter = new_http_filter(FilterConfig(sc.config))
          /\ envoy = sc.envoy
    /\ phase = "request_headers"
    /\ status = Returned("none", FALSE, Continue, FALSE)
    /\ run = NoRun
    /\ lib = [build |-> [overflow_checks |-> FALSE], call |-> NoCall]
    /\ evals = NoEvals

Next ==
    \E end_of_stream \in BOOLEAN :
        \/ on_request_headers(end_of_stream)
        \/ on_request_body(end_of_stream)
        \/ on_response_headers(end_of_stream)
        \/ on_response_body(end_of_stream)

Spec == Init /\ [][Next]_vars

---------------------------------------------------------------------------
(* Configurations whose template texts meet the lookup keys of the body *)
(* templates *)

\* The configurations of AliasTransforms on either side, next to the
\* request configurations of BodyTransforms.
AliasScenarios ==
    {RequestScenario(t, h, b) :
        t \in AliasTransforms, h \in HeaderLists,
        b \in {None, Some(<<B_OBJECT>>), Some(<<B_INVALID>>)}}
    \cup {ResponseScenario(t, h, [buffered |-> b, received |-> None]) :
            t \in AliasTransforms, h \in HeaderLists,
            b \in {None, Some(<<B_OBJECT>>), Some(<<B_INVALID>>)}}
    \cup {RequestScenario(t, h, Some(<<B_OBJECT>>)) :
            t \in BodyTransforms, h \in HeaderLists}

AliasInit ==
    /\ \E sc \in AliasScenarios :
          /\ filter = new_http_filter(FilterConfig(sc.config))
          /\ envoy = sc.envoy
    /\ phase = "request_headers"
    /\ status = Returned("none", FALSE, Continue, FALSE)
    /\ run = NoRun
    /\ lib = [build |-> [overflow_checks |-> FALSE], call |-> NoCall]
    /\ evals = NoEvals

AliasSpec == AliasInit /\ [][Next]_vars

---------------------------------------------------------------------------
(* Filters with a request and a response transform, and the per-route      *)
(* configuration the host gives for the stream                              *)

\* The transforms of the filter-level configurations: the request
\* transform changes a request header the response transform reads.
FilterLevelRequest == LocalTransform(<<>>, <<NameValuePair("x-a", T_LIT)>>, <<>>, None)

FilterLevelResponse ==
    LocalTransform(<<>>, <<NameValuePair("x-b", T_REQ_HEADER)>>, <<>>, None)

\* The transforms of the per-route configurations, with templates of their
\* own.
PerRouteRequest ==
    LocalTransform(<<NameValuePair("x-b", T_HEADER)>>, <<>>, <<"x-a">>, None)

PerRouteResponse ==
    LocalTransform(<<NameValuePair("x-b", T_HEADER)>>,
                   <<NameValuePair("x-a", T_REQ_HEADER)>>, <<>>, None)

FilterLevelConfigurations ==
    {[request |-> Some(FilterLevelRequest), response |-> Some(FilterLevelResponse)],
     [request |-> None, response |-> Some(FilterLevelResponse)]}

PerRouteConfigurations ==
    {[request |-> Some(PerRouteRequest), response |-> None],
     [request |-> None, response |-> Some(PerRouteResponse)],
     [request |-> Some(PerRouteRequest), response |-> Some(PerRouteResponse)]}

\* What get_most_specific_route_config() can give: nothing, an object of
\* another type, or a PerRouteConfig.
RouteConfigObjects ==
    {None, Some(WrongRouteConfigType)}
    \cup {Some(FilterConfig(c)) : c \in PerRouteConfigurations}

RouteInit ==
    /\ \E c \in FilterLevelConfigurations, rc \in RouteConfigObjects, h \in HeaderLists :
          /\ filter = new_http_filter(FilterConfig(c))
          /\ envoy = [Envoy(<< <<"x-a", "rv">> >>, None, h, NoBody)
                         EXCEPT !.route_config = rc]
    /\ phase = "request_headers"
    /\ status = Returned("none", FALSE, Continue, FALSE)
    /\ run = NoRun
    /\ lib = [build |-> [overflow_checks |-> FALSE], call |-> NoCall]
    /\ evals = NoEvals

\* The host selects another route for the stream between two callbacks.
route_selected ==
    /\ phase # "done"
    /\ \E rc \in RouteConfigObjects :
          /\ rc # envoy.route_config
          /\ envoy' = [envoy EXCEPT !.route_config = rc]
    /\ UNCHANGED <<filter, phase, status, run, lib, evals>>

RouteNext ==
    \/ \E end_of_stream \in BOOLEAN :
          \/ on_request_headers(end_of_stream)
          \/ on_request_body(end_of_stream)
          \/ on_response_headers(end_of_stream)
          \/ on_response_body(end_of_stream)
    \/ route_selected

RouteSpec == RouteInit /\ [][RouteNext]_vars

---------------------------------------------------------------------------
(* Messages whose JSON body has fields named like the context keys of the  *)
(* header maps                                                              *)

CollisionBodies == {Some(<<B_OBJECT>>), Some(<<B_RESERVED>>)}

\* The configurations of FunctionTransforms on either side, with a body
\* that has such fields or has none.
CollisionScenarios ==
    {RequestScenario(t, h, b) :
        t \in FunctionTransforms, h \in HeaderLists, b \in CollisionBodies}
    \cup {ResponseScenario(t, h, [buffered |-> b, received |-> None]) :
            t \in FunctionTransforms, h \in HeaderLists, b \in CollisionBodies}

CollisionInit ==
    /\ \E sc \in CollisionScenarios :
          /\ filter = new_http_filter(FilterConfig(sc.config))
          /\ envoy = sc.envoy
    /\ phase = "request_headers"
    /\ status = Returned("none", FALSE, Continue, FALSE)
    /\ run = NoRun
    /\ lib = [build |-> [overflow_checks |-> FALSE], call |-> NoCall]
    /\ evals = NoEvals

CollisionSpec == CollisionInit /\ [][Next]_vars

---------------------------------------------------------------------------
(* The functions of the library and of the configuration loader, called   *)
(* on their own: one call in each behaviour.                               *)

\* The texts given to substring: empty, ASCII, and with characters of two
\* and of three bytes.
Texts ==
    {<<>>,
     <<Char("a", 1)>>,
     <<Char("a", 1), Char("b", 1), Char("c", 1)>>,
     <<Char("a", 1), Char("e-acute", 2), Char("b", 1)>>,
     <<Char("euro", 3), Char("a", 1)>>}

Words == 0..usize_MAX

LibInit ==
    /\ filter = new_http_filter(FilterConfig([request |-> None, response |-> None]))
    /\ envoy = Envoy(<<>>, None, <<>>, NoBody)
    /\ phase = "library"
    /\ status = Returned("none", FALSE, Continue, FALSE)
    /\ run = NoRun
    /\ \E b \in Builds : lib = [build |-> b, call |-> NoCall]
    /\ evals = NoEvals

call_substring ==
    /\ lib.call = NoCall
    /\ \E input \in Texts, start \in Words, len \in {None} \cup {Some(n) : n \in Words} :
           /\ lib' = [lib EXCEPT !.call = [fn |-> "substring", input |-> input,
                                            start |-> start, len |-> len,
                                            r |-> substring(input, start, len)]]
           /\ UNCHANGED <<filter, envoy, phase, status, run, evals>>

\* The headers maps given to the lookups: keys in lower case or not.
HeaderMaps ==
    {EmptyMap,
     [n \in {"x-a"} |-> "va"],
     [n \in {"X-A"} |-> "VA"],
     [n \in {"x-a", "x-b"} |-> IF n = "x-a" THEN "va" ELSE "vb"]}

\* What the context can hold under one of the two headers keys: a headers
\* map, or a value that does not deserialize to a map of strings.
HeadersValues ==
    {HeadersValue(m) : m \in HeaderMaps}
    \cup {VStr("text"), VMap([n \in {"x-a"} |-> VMap(EmptyMap)])}

OptionsOf(S) == {None} \cup {Some(x) : x \in S}

LookupContexts ==
    {(IF IsSome(h) THEN Insert(EmptyMap, STATE_LOOKUP_KEY_HEADERS, h.v) ELSE EmptyMap)
     @@ (IF IsSome(r) THEN Insert(EmptyMap, STATE_LOOKUP_KEY_REQ_HEADERS, r.v)
         ELSE EmptyMap) :
        h \in OptionsOf(HeadersValues), r \in OptionsOf(HeadersValues)}

LookupNames == {"x-a", "X-A", "X-b", "x-c"}

call_header ==
    /\ lib.call = NoCall
    /\ \E ctx \in LookupContexts, key \in LookupNames :
           /\ lib' = [lib EXCEPT !.call = [fn |-> "header", ctx |-> ctx, key |-> key,
                                            lookup |-> STATE_LOOKUP_KEY_HEADERS,
                                            r |-> header(ctx, key)]]
           /\ UNCHANGED <<filter, envoy, phase, status, run, evals>>

call_request_header ==
    /\ lib.call = NoCall
    /\ \E ctx \in LookupContexts, key \in LookupNames :
           /\ lib' = [lib EXCEPT !.call = [fn |-> "request_header", ctx |-> ctx, key |-> key,
                                            lookup |-> STATE_LOOKUP_KEY_REQ_HEADERS,
                                            r |-> request_header(ctx, key)]]
           /\ UNCHANGED <<filter, envoy, phase, status, run, evals>>

\* A JSON object with the fields given as (name, value) pairs; a pair whose
\* value is Absent gives no field.
Obj(fields) ==
    LET present == {i \in DOMAIN fields : fields[i][2] # Absent}
    IN VMap([n \in {fields[i][1] : i \in present} |->
                fields[CHOOSE i \in present : fields[i][1] = n][2]])

\* A field of a later version of the control plane, written at the levels
\* named in u.
Unknown(level, u) == IF level \in u THEN VStr("a new field") ELSE Absent

PairDoc(name, value, u) ==
    Obj(<< <<"name", name>>, <<"value", value>>, <<"foo", Unknown("pair", u)>> >>)

BodyDoc(parse_as, value, u) ==
    Obj(<< <<"parseAs", parse_as>>, <<"value", value>>, <<"foo", Unknown("body", u)>> >>)

TransformDoc(add, set, remove, body, u) ==
    Obj(<< <<"add", add>>, <<"set", set>>, <<"remove", remove>>, <<"body", body>>,
           <<"foo", Unknown("transform", u)>> >>)

ConfigDoc(request, response, u) ==
    Obj(<< <<"request", request>>, <<"response", response>>,
           <<"foo", Unknown("top", u)>> >>)

Levels == {"top", "transform", "pair", "body"}

\* Documents the loader accepts when their templates compile.
ValidDocs(u) ==
    {ConfigDoc(Absent, Absent, u),
     ConfigDoc(VNull, TransformDoc(Absent, Absent, Absent, Absent, u), u),
     ConfigDoc(TransformDoc(VSeq(<<PairDoc(VStr("x-b"), Absent, u)>>),
                            VSeq(<<PairDoc(VStr("x-a"), VStr(T_LIT), u)>>),
                            VSeq(<<VStr("x-a")>>), Absent, u),
               Absent, u),
     ConfigDoc(TransformDoc(Absent, Absent, Absent,
                            BodyDoc(VStr("AsJson"), VStr(T_JSON_VAR), u), u),
               TransformDoc(Absent, Absent, Absent, BodyDoc(Absent, VStr(T_LIT), u), u),
               u),
     ConfigDoc(TransformDoc(Absent, Absent, Absent, VNull, u), Absent, u),
     ConfigDoc(Absent,
               TransformDoc(Absent, VSeq(<<PairDoc(VStr("x-a"), VStr(T_HEADER), u)>>),
                            Absent, Absent, u),
               u)}

\* Well-formed documents with a template that has a syntax error.
BadTemplateDocs(u) ==
    {ConfigDoc(TransformDoc(Absent, VSeq(<<PairDoc(VStr("x-a"), VStr(T_SYNTAX), u)>>),
                            Absent, Absent, u),
               Absent, u),
     ConfigDoc(Absent,
               TransformDoc(Absent, Absent, Absent, BodyDoc(Absent, VStr(T_SYNTAX), u), u),
               u),
     ConfigDoc(TransformDoc(VSeq(<<PairDoc(VStr("x-a"), VStr(T_LIT), u),
                                   PairDoc(VStr("x-b"), VStr(T_SYNTAX), u)>>),
                            Absent, Absent, Absent, u),
               Absent, u)}

\* Malformed documents: not JSON, or JSON that is not a configuration.
MalformedDocs(u) ==
    {NotJson, VStr("text"), VNull,
     ConfigDoc(VStr("text"), Absent, u),
     ConfigDoc(TransformDoc(Absent, VNull, Absent, Absent, u), Absent, u),
     ConfigDoc(TransformDoc(Absent, VSeq(<<PairDoc(Absent, VStr(T_LIT), u)>>),
                            Absent, Absent, u),
               Absent, u),
     ConfigDoc(TransformDoc(Absent, VSeq(<<PairDoc(VStr("x-a"), VNull, u)>>),
                            Absent, Absent, u),
               Absent, u),
     ConfigDoc(TransformDoc(Absent, Absent, VSeq(<<VNum(7)>>), Absent, u), Absent, u),
     ConfigDoc(Absent,
               TransformDoc(Absent, Absent, Absent, BodyDoc(VStr("AsXml"), Absent, u), u),
               u)}

\* The documents given to the loader, each with what it was written as.
Documents ==
    UNION {{[text |-> d, written |-> "valid"] : d \in ValidDocs(u)}
           \cup {[text |-> d, written |-> "bad template"] : d \in BadTemplateDocs(u)}
           \cup {[text |-> d, written |-> "malformed"] : d \in MalformedDocs(u)} :
           u \in SUBSET Levels}

call_FilterConfig_new ==
    /\ lib.call = NoCall
    /\ \E doc \in Documents :
           /\ lib' = [lib EXCEPT !.call = [fn |-> "FilterConfig::new", doc |-> doc,
                                            r |-> FilterConfig_new(doc.text)]]
           /\ UNCHANGED <<filter, envoy, phase, status, run, evals>>

LibNext ==
    \/ call_substring
    \/ call_FilterConfig_new
    \/ call_header
    \/ call_request_header

LibSpec == LibInit /\ [][LibNext]_vars

---------------------------------------------------------------------------
(* Messages of several streams evaluated at once.  Each stream has its own *)
(* Filter, made by new_http_filter from the one FilterConfig, and its own  *)
(* message; an evaluation advances one phase of its orchestration at a     *)
(* time, and the evaluations interleave.                                   *)

Streams == {"s1", "s2"}

\* Transforms whose outcome depends on the message.
EvalTransforms ==
    {LocalTransform(<<NameValuePair("x-b", T_LIT)>>,
                    <<NameValuePair("x-a", T_BAD_CALL)>>,
                    <<"content-type">>, Some(BodyTransform(AsJson, T_JSON_VAR))),
     LocalTransform(<<NameValuePair("x-b", T_HEADER)>>,
                    <<NameValuePair("x-a", T_JSON_VAR)>>, <<"x-a">>,
                    Some(BodyTransform(AsJson, T_EMPTY))),
     LocalTransform(<<>>, <<NameValuePair("x-b", T_LIT)>>, <<>>,
                    Some(BodyTransform(AsJson, T_CONTEXT))),
     LocalTransform(<<NameValuePair("x-b", T_REQ_HEADER)>>, <<>>, <<"x-a">>,
                    Some(BodyTransform(AsString, T_BODY)))}

EvalMessages ==
    {[side |-> side, headers |-> h, body |-> b] :
        side \in {REQUEST, RESPONSE}, h \in HeaderLists,
        b \in {None, Some(<<B_OBJECT>>), Some(<<B_INVALID>>)}}

\* The host of a stream with its message.
HostOf(msg) ==
    IF msg.side = REQUEST THEN Envoy(msg.headers, msg.body, <<>>, NoBody)
    ELSE Envoy(<< <<"x-a", "rv">> >>, None, msg.headers,
               [buffered |-> msg.body, received |-> None])

\* The two headers maps as transform_request / transform_response put them
\* into the context map.
HeadersContext(side, request_headers_map, response_headers_map) ==
    Insert(Insert(EmptyMap, STATE_LOOKUP_KEY_HEADERS,
                  HeadersValue(IF side = REQUEST THEN request_headers_map
                               ELSE response_headers_map)),
           STATE_LOOKUP_KEY_REQ_HEADERS, HeadersValue(request_headers_map))

\* An evaluation about to start: the stream's filter, the message, and the
\* locals of the orchestration.
NewEval(filter_config, msg) ==
    LET host == HostOf(msg)
        f == populate_request_headers_map(new_http_filter(filter_config),
                                          host.request_headers)
    IN [filter |-> f, side |-> msg.side, host |-> host,
        transform |-> (IF msg.side = REQUEST THEN get_request_transform(f)
                       ELSE get_response_transform(f)).v,
        m0 |-> HeadersContext(msg.side, get_request_headers_map(f),
                              create_headers_map(host.response_headers)),
        pc |-> "context",
        s |-> [o |-> EnvoyTransformationOps_new(host), errors |-> <<>>,
               renders |-> <<>>, ret |-> None, ctx |-> EmptyMap,
               parsed_body_as_json |-> FALSE]]

\* The render arguments of an evaluation: its filter's environment and its
\* own context and flag.
RenderArgs(e) ==
    [env |-> get_env(e.filter), ctx |-> e.s.ctx,
     parsed_body_as_json |-> e.s.parsed_body_as_json]

\* One phase of the orchestration of an evaluation.
EvalStep(e) ==
    CASE e.pc = "context" ->
            Bind(BuildContext(e.side, e.transform, e.m0, e.s.o), LAMBDA b :
                [e EXCEPT !.s = [o |-> b.o, errors |-> <<>>, renders |-> <<>>,
                                 ret |-> b.ret, ctx |-> b.m,
                                 parsed_body_as_json |-> b.parsed_body_as_json],
                          !.pc = IF IsSome(b.ret) THEN "done" ELSE "body"])
      [] e.pc = "body" ->
            [e EXCEPT !.s = BodyRewrite(e.side, RenderArgs(e), e.transform, e.s),
                      !.pc = "set"]
      [] e.pc = "set" ->
            Bind(SetLoop(e.side, RenderArgs(e), e.transform.set, 1, e.s), LAMBDA s1 :
                [e EXCEPT !.s = s1, !.pc = IF IsSome(s1.ret) THEN "done" ELSE "add"])
      [] e.pc = "add" ->
            Bind(AddLoop(e.side, RenderArgs(e), e.transform.add, 1, e.s), LAMBDA s1 :
                [e EXCEPT !.s = s1, !.pc = IF IsSome(s1.ret) THEN "done" ELSE "remove"])
      [] e.pc = "remove" ->
            [e EXCEPT !.s = RemoveLoop(e.side, e.transform.remove, 1, e.s),
                      !.pc = "finish"]
      [] e.pc = "finish" ->
            [e EXCEPT !.s = Finish(e.side, e.s), !.pc = "done"]

ConcInit ==
    /\ filter = new_http_filter(FilterConfig([request |-> None, response |-> None]))
    /\ envoy = Envoy(<<>>, None, <<>>, NoBody)
    /\ phase = "streams"
    /\ status = Returned("none", FALSE, Continue, FALSE)
    /\ run = NoRun
    /\ lib = [build |-> [overflow_checks |-> FALSE], call |-> NoCall]
    /\ \E t \in EvalTransforms, msgs \in [Streams -> EvalMessages] :
          \E fc \in {FilterConfig([request |-> Some(t), response |-> Some(t)])} :
             evals = [shared |-> Some(fc),
                      start |-> [st \in Streams |-> NewEval(fc, msgs[st])],
                      t |-> [st \in Streams |-> NewEval(fc, msgs[st])]]

\* Variant of step in which the error list is one list of all the streams.
step_SharedErrors(st) ==
    /\ IsSome(evals.shared)
    /\ evals.t[st].pc # "done"
    /\ evals' = [evals EXCEPT !.t[st] =
                    EvalStep([evals.t[st] EXCEPT !.s.errors =
                                 evals.t[CHOOSE other \in Streams : other # st].s.errors
                                 \o @])]
    /\ UNCHANGED <<filter, envoy, phase, status, run, lib>>

\* The evaluation of stream st advances by one phase.
step(st) ==
    /\ IsSome(evals.shared)
    /\ evals.t[st].pc # "done"
    /\ evals' = [evals EXCEPT !.t[st] = EvalStep(evals.t[st])]
    /\ UNCHANGED <<filter, envoy, phase, status, run, lib>>

ConcNext == \E st \in Streams : step(st)

ConcSpec == ConcInit /\ [][ConcNext]_vars

---------------------------------------------------------------------------
(* Vocabulary of the properties: what the last orchestration was given and *)
(* what it left.                                                            *)

Ran == run.side # "none"

Transform == run.transform

\* The orchestration returned the error of a failed body parse.
ParseAborted == ~run.ret.ok /\ IsSerdeJsonError(run.ret.err)

\* The orchestration returned an undeclared-variable error.
UndeclaredAborted == ~run.ret.ok /\ IsTransformationError(run.ret.err)

\* The orchestration ran to its last statement.
Completed == run.ret.ok \/ run.ret.err.type = "anyhow"

CallsAt(at) == SelectSeq(run.calls, LAMBDA c : c.at = at)

CallsIn(ph) == SelectSeq(run.calls, LAMBDA c : c.at[1] = ph)

Op(name) == name \o "_" \o run.side \o "_header"

BodyOp(name) == name \o "_" \o run.side \o "_body"

HeadersOf(e) == IF run.side = REQUEST THEN e.request_headers ELSE e.response_headers

\* The body of the message: for a response, the buffered body and, without
\* one, the received body.
BodyOf(e) ==
    IF run.side = REQUEST
    THEN (IF IsSome(e.buffered_request_body) THEN concat(e.buffered_request_body.v) ELSE "")
    ELSE IF IsSome(e.buffered_response_body) THEN concat(e.buffered_response_body.v)
    ELSE IF IsSome(e.received_response_body) THEN concat(e.received_response_body.v)
    ELSE ""

\* The render of a header template in the context of the last orchestration.
HeaderRender(value) ==
    render(get_env(filter), run.ctx, value, value, run.parsed_body_as_json)

BodyRender ==
    render(get_env(filter), run.ctx, BodyTemplateKey(run.side), Transform.body.v.value,
           run.parsed_body_as_json)

Critical(value) ==
    value # "" /\ ~HeaderRender(value).ok /\ IsTransformationError(HeaderRender(value).err)

Recoverable(value) ==
    value # "" /\ ~HeaderRender(value).ok /\ ~IsTransformationError(HeaderRender(value).err)

RendersNonEmpty(value) ==
    value # "" /\ HeaderRender(value).ok /\ HeaderRender(value).s # ""

\* Entry i of the list is processed and does not abort: no entry up to it
\* fails with the undeclared-variable condition.
SetPassed(i) == ~ParseAborted /\ \A j \in 1..i : ~Critical(Transform.set[j].value)

AddPassed(i) ==
    /\ SetPassed(Len(Transform.set))
    /\ \A j \in 1..i : ~Critical(Transform.add[j].value)

NoAbort == AddPassed(Len(Transform.add))

\* The template references a variable that is no registered function.
ReferencesJsonVariable(value) ==
    value # "" /\ \E v \in undeclared_variables(Compile(value)) : v \notin GLOBALS_LOOKUP

PhaseRank(ph) ==
    CASE ph = "context" -> 0
      [] ph = "body" -> 1
      [] ph = "set" -> 2
      [] ph = "add" -> 3
      [] ph = "remove" -> 4

\* The entry a call of the header lists was made for names the header the
\* call is about, and the call is one the list can make.
CallFitsEntry(c) ==
    CASE c.at[1] = "set" ->
            /\ c.at[2] \in DOMAIN Transform.set
            /\ c.key = Transform.set[c.at[2]].name
            /\ c.op \in {Op("set"), Op("remove")}
      [] c.at[1] = "add" ->
            /\ c.at[2] \in DOMAIN Transform.add
            /\ c.key = Transform.add[c.at[2]].name
            /\ c.op = Op("add")
      [] c.at[1] = "remove" ->
            /\ c.at[2] \in DOMAIN Transform.remove
            /\ c.key = Transform.remove[c.at[2]]
            /\ c.op = Op("remove")
      [] c.at[1] = "body" ->
            c.op \in {BodyOp("drain"), BodyOp("append"), Op("set"), Op("remove")}
      [] c.at[1] = "context" -> c.op \in {"parse_" \o run.side \o "_json_body",
                                          BodyOp("get")}

\* The last call about header name n, if any.
LastCallOn(n) ==
    LET on == SelectSeq(run.calls, LAMBDA c : c.key = n)
    IN IF on = <<>> THEN None ELSE Some(on[Len(on)])

HeaderNamesCalled == {run.calls[i].key : i \in DOMAIN run.calls} \ {""}

\* What the last call about n left in the headers.
LastCallVisible(n) ==
    LET c == LastCallOn(n).v
        now == HeaderValues(HeadersOf(run.after), n)
    IN CASE c.op = Op("set") -> now = <<c.value>>
         [] c.op = Op("remove") -> now = <<>>
         [] c.op = Op("add") -> now # <<>> /\ now[Len(now)] = c.value

(* C1: in every orchestration the calls on the host come in the order body  *)
(* rewrite, set entries, add entries, remove entries; within a list they    *)
(* follow the order of the configuration, each call being about the header  *)
(* its entry names; and the effect of the last call about a header is the   *)
(* one visible in the headers the orchestration leaves.                     *)
C1_PhaseOrder ==
    Ran =>
        /\ \A i \in DOMAIN run.calls : CallFitsEntry(run.calls[i])
        /\ \A i \in DOMAIN run.calls : \A j \in DOMAIN run.calls :
              i < j =>
                 LET a == run.calls[i].at
                     b == run.calls[j].at
                 IN \/ PhaseRank(a[1]) < PhaseRank(b[1])
                    \/ a[1] = b[1] /\ a[2] <= b[2]
        /\ \A n \in HeaderNamesCalled : LastCallVisible(n)

\* An orchestration that went through body rewrite, set, add and remove.
C1_Witness ==
    /\ Ran
    /\ Completed
    /\ CallsIn("body") # <<>>
    /\ CallsIn("set") # <<>>
    /\ CallsIn("add") # <<>>
    /\ CallsIn("remove") # <<>>

\* Two entries of one list about the same header, both acted on.
C1_WitnessSameName ==
    /\ Ran
    /\ Completed
    /\ Len(Transform.set) = 2
    /\ Transform.set[1].name = Transform.set[2].name
    /\ CallsAt(<<"set", 1>>) # <<>>
    /\ CallsAt(<<"set", 2>>) # <<>>
    /\ CallsAt(<<"set", 1>>)[1].op # CallsAt(<<"set", 2>>)[1].op

\* JSON parsing was never requested: no body transform, or mode AsString.
JsonNeverRequested ==
    ~IsSome(Transform.body) \/ Transform.body.v.parse_as = AsString

\* The first set entry whose template references a JSON variable, or 0.
FirstJsonSetEntry ==
    LET is == {i \in DOMAIN Transform.set : ReferencesJsonVariable(Transform.set[i].value)}
    IN IF is = {} THEN 0 ELSE CHOOSE i \in is : \A j \in is : i <= j

(* C2: when JSON parsing was never requested and a set entry's template     *)
(* references a variable that is no registered function, the orchestration  *)
(* returns the undeclared-variable error and no call is made for that       *)
(* entry, for a later set entry, for an add entry or for a remove entry.    *)
C2_SetUndeclaredAborts ==
    (Ran /\ JsonNeverRequested /\ FirstJsonSetEntry > 0) =>
        /\ ~run.ret.ok
        /\ run.ret.err =
              UndeclaredJsonVariables(Transform.set[FirstJsonSetEntry].value)
        /\ \A i \in DOMAIN run.calls :
              LET at == run.calls[i].at
              IN /\ at[1] \notin {"add", "remove"}
                 /\ at[1] = "set" => at[2] < FirstJsonSetEntry

\* The aborting entry is followed by entries in the configuration.
C2_Witness ==
    /\ Ran
    /\ JsonNeverRequested
    /\ FirstJsonSetEntry > 0
    /\ Transform.add # <<>>
    /\ Transform.remove # <<>>
    /\ UndeclaredAborted

(* C3: whenever a render of the orchestration (body, set or add template)   *)
(* fails with the undeclared-variable condition, the orchestration returns  *)
(* an error that is TransformationError::UndeclaredJsonVariables.           *)
C3_EveryUndeclaredAborts ==
    Ran =>
        \A i \in DOMAIN run.renders :
            (~run.renders[i].r.ok /\ IsTransformationError(run.renders[i].r.err))
                => UndeclaredAborted

\* The part of C3 about the set and add templates.
C3_HeaderUndeclaredAborts ==
    Ran =>
        \A i \in DOMAIN run.renders :
            (/\ run.renders[i].at[1] \in {"set", "add"}
             /\ ~run.renders[i].r.ok
             /\ IsTransformationError(run.renders[i].r.err))
                => (UndeclaredAborted /\ run.ret.err = run.renders[i].r.err)

\* The body that the JSON parse of the orchestration read.
ParsedBytes == BodyOf(run.before)

\* The host's parse of the body fails: there are bytes and they are no JSON.
\* (A request body is parsed when its buffer holds a chunk.)
HostParseFails ==
    /\ IsSome(Transform.body)
    /\ Transform.body.v.parse_as = AsJson
    /\ IF run.side = REQUEST
       THEN /\ IsSome(run.before.buffered_request_body)
            /\ run.before.buffered_request_body.v # <<>>
       ELSE ParsedBytes # ""
    /\ ~from_slice(ParsedBytes).ok

(* C4: when the mode is AsJson and the host's parse of the body fails, the  *)
(* orchestration returns the parse failure at once: the only call made is   *)
(* the parse, nothing is rendered, and headers and body are as before.      *)
C4_ParseFailureReturnsAtOnce ==
    (Ran /\ HostParseFails) =>
        /\ ParseAborted
        /\ Len(run.calls) = 1
        /\ run.calls[1].op = "parse_" \o run.side \o "_json_body"
        /\ run.renders = <<>>
        /\ run.after = run.before

\* A failed parse under a transform that has a body template and entries.
C4_Witness ==
    /\ Ran
    /\ HostParseFails
    /\ Transform.body.v.value # ""
    /\ Transform.set # <<>>
    /\ Transform.remove # <<>>

\* The callback that just returned ran an orchestration.
JustRan == status.ran /\ Ran

CriticalFailure == ParseAborted \/ UndeclaredAborted

StopStatusOf(callback) ==
    IF callback \in {"on_request_headers", "on_response_headers"}
    THEN StopIteration ELSE StopIterationAndBuffer

(* C5: a callback whose orchestration ends with a critical failure sends    *)
(* exactly one local reply, of status 400, and returns its stop status; a   *)
(* callback whose orchestration ends with success or with the combined      *)
(* error sends no local reply and returns Continue.                         *)
C5_CriticalFailureRejects ==
    JustRan =>
        IF CriticalFailure
        THEN /\ envoy.local_replies = Append(run.before.local_replies, 400)
             /\ status.ret = StopStatusOf(status.callback)
             /\ status.ret # Continue
        ELSE /\ envoy.local_replies = run.before.local_replies
             /\ status.ret = Continue

C5_WitnessParse == JustRan /\ ParseAborted /\ status.callback = "on_response_body"

C5_WitnessUndeclared == JustRan /\ UndeclaredAborted

C5_WitnessCombined == JustRan /\ ~run.ret.ok /\ ~CriticalFailure

\* The combined error the orchestration returned holds the error e.
Reported(e) ==
    /\ \E i \in DOMAIN run.errors : run.errors[i] = e
    /\ Completed => (~run.ret.ok /\ \E i \in DOMAIN run.ret.err.causes :
                                        run.ret.err.causes[i] = e)

C6_WitnessAdd ==
    /\ Ran
    /\ Len(Transform.add) = 1
    /\ AddPassed(1)
    /\ Recoverable(Transform.add[1].value)
    /\ Transform.remove # <<>>

(* C7: every set entry that is processed without abort makes exactly one    *)
(* call, about its header name: set-header with the rendered bytes when the *)
(* template is not empty and renders to a non-empty string, remove-header   *)
(* in every other case.                                                     *)
C7_SetEntryOneCall ==
    Ran =>
        \A i \in DOMAIN Transform.set :
            SetPassed(i) =>
                LET e == Transform.set[i]
                IN CallsAt(<<"set", i>>) =
                      IF RendersNonEmpty(e.value)
                      THEN <<Call(Op("set"), e.name, HeaderRender(e.value).s, <<"set", i>>)>>
                      ELSE <<Call(Op("remove"), e.name, "", <<"set", i>>)>>

\* A set entry whose template is not empty and renders to the empty string.
C7_WitnessEmptyRender ==
    /\ Ran
    /\ \E i \in DOMAIN Transform.set :
          /\ SetPassed(i)
          /\ Transform.set[i].value # ""
          /\ HeaderRender(Transform.set[i].value) = Ok("")

C7_WitnessSet ==
    /\ Ran
    /\ \E i \in DOMAIN Transform.set :
          SetPassed(i) /\ RendersNonEmpty(Transform.set[i].value)

(* C8: after an orchestration that is not aborted, no header named in the   *)
(* remove list is in the message, whatever the body rewrite and the set and *)
(* add entries did to it.                                                   *)
C8_RemovedHeadersAbsent ==
    (Ran /\ Completed) =>
        \A i \in DOMAIN Transform.remove :
            ~HasHeader(HeadersOf(run.after), Transform.remove[i])

\* A removed header that an earlier phase of the orchestration had written.
C8_Witness ==
    /\ Ran
    /\ Completed
    /\ \E i \in DOMAIN Transform.remove : \E j \in DOMAIN run.calls :
          /\ run.calls[j].key = Transform.remove[i]
          /\ run.calls[j].op \in {Op("set"), Op("add")}

C8_WitnessTwo ==
    /\ Ran
    /\ Completed
    /\ Len(Transform.remove) = 2
    /\ Transform.remove[1] # Transform.remove[2]
    /\ HasHeader(HeadersOf(run.before), Transform.remove[2])

(* C9: an add entry that is processed without abort makes one add-header    *)
(* call when its template is not empty and renders to a non-empty string,   *)
(* and no call at all otherwise; it never removes a header.                 *)
C9_AddEntryAddsOrNothing ==
    Ran =>
        /\ \A i \in DOMAIN Transform.add :
              AddPassed(i) =>
                 LET e == Transform.add[i]
                 IN CallsAt(<<"add", i>>) =
                       IF RendersNonEmpty(e.value)
                       THEN <<Call(Op("add"), e.name, HeaderRender(e.value).s, <<"add", i>>)>>
                       ELSE <<>>
        /\ \A j \in DOMAIN run.calls :
              run.calls[j].at[1] = "add" => run.calls[j].op = Op("add")

\* An add entry that fails recoverably on a header the message carries: the
\* header stays.
C9_Witness ==
    /\ Ran
    /\ \E i \in DOMAIN Transform.add :
          /\ AddPassed(i)
          /\ Recoverable(Transform.add[i].value)
          /\ HasHeader(HeadersOf(run.before), Transform.add[i].name)
          /\ HasHeader(HeadersOf(run.after), Transform.add[i].name)

C9_WitnessAdd ==
    /\ Ran
    /\ \E i \in DOMAIN Transform.add :
          AddPassed(i) /\ RendersNonEmpty(Transform.add[i].value)

\* The number a decimal text stands for, -1 when it is no decimal text.
RECURSIVE DecimalValue(_)
DecimalValue(text) ==
    IF Len(text) = 0 THEN -1
    ELSE LET last == SubSeq(text, Len(text), Len(text))
             ds == {d \in 0..9 : SubSeq("0123456789", d + 1, d + 1) = last}
         IN IF ds = {} THEN -1
            ELSE IF Len(text) = 1 THEN CHOOSE d \in ds : TRUE
            ELSE LET front == DecimalValue(SubSeq(text, 1, Len(text) - 1))
                 IN IF front <= 0 THEN -1 ELSE 10 * front + (CHOOSE d \in ds : TRUE)

BodyRewritten ==
    /\ IsSome(Transform.body)
    /\ Transform.body.v.value # ""
    /\ ~ParseAborted

(* C10: when the body template is not empty and renders to a non-empty      *)
(* string, the body after the orchestration is the rendered bytes alone and *)
(* content-length was set to the decimal text of their length.              *)
C10_BodyReplaced ==
    (Ran /\ BodyRewritten /\ BodyRender.ok /\ BodyRender.s # "") =>
        /\ BodyOf(run.after) = BodyRender.s
        /\ \E i \in DOMAIN run.calls :
              /\ run.calls[i].at = <<"body", 1>>
              /\ run.calls[i].op = Op("set")
              /\ run.calls[i].key = "content-length"
              /\ DecimalValue(run.calls[i].value) = Len(BodyRender.s)
              /\ \A j \in DOMAIN run.calls :
                    (run.calls[j].at = <<"body", 1>> /\ run.calls[j].op = Op("set"))
                       => j = i

\* A body of ten bytes written over a body that was not empty.
C10_Witness ==
    /\ Ran
    /\ BodyRewritten
    /\ BodyRender.ok
    /\ Len(BodyRender.s) = 10
    /\ BodyOf(run.before) # ""
    /\ BodyOf(run.after) = BodyRender.s

C10_WitnessOverwrite ==
    /\ Ran
    /\ BodyRewritten
    /\ BodyRender.ok
    /\ BodyRender.s # ""
    /\ BodyOf(run.before) # ""
    /\ BodyOf(run.before) # BodyRender.s

\* The body template was rendered and gave no body: an empty string, or a
\* failure other than the undeclared-variable condition.
BodyRemoved ==
    /\ BodyRewritten
    /\ \/ BodyRender = Ok("")
       \/ ~BodyRender.ok /\ ~IsTransformationError(BodyRender.err)

\* No entry of the header lists made a call about header name n.
OnlyBodyPhaseCalls(n) ==
    \A i \in DOMAIN run.calls :
        run.calls[i].key = n => run.calls[i].at[1] = "body"

(* C11: when the body template is not empty and renders to the empty        *)
(* string, or its render fails with a failure other than the undeclared-    *)
(* variable condition, the body is left empty, content-length is set to     *)
(* "0", content-type is removed and nothing is appended to the body.        *)
C11_BodyRemoved ==
    (Ran /\ BodyRemoved) =>
        /\ BodyOf(run.after) = ""
        /\ CallsIn("body") =
              << Call(BodyOp("drain"), "", "", <<"body", 1>>),
                 Call(Op("set"), "content-length", "0", <<"body", 1>>),
                 Call(Op("remove"), "content-type", "", <<"body", 1>>) >>
        /\ OnlyBodyPhaseCalls("content-length")
              => HeaderValues(HeadersOf(run.after), "content-length") = <<"0">>
        /\ OnlyBodyPhaseCalls("content-type")
              => ~HasHeader(HeadersOf(run.after), "content-type")

\* A failed body render on a message that had a body and a content-type.
C11_Witness ==
    /\ Ran
    /\ BodyRemoved
    /\ ~BodyRender.ok
    /\ BodyOf(run.before) # ""
    /\ HasHeader(HeadersOf(run.before), "content-type")
    /\ ~HasHeader(HeadersOf(run.after), "content-type")

C11_WitnessEmptyRender ==
    /\ Ran
    /\ BodyRemoved
    /\ BodyRender = Ok("")
    /\ BodyOf(run.before) # ""

\* The render of the body template failed.
BodyRenderFailed == BodyRewritten /\ ~BodyRender.ok

\* The text combine_errors makes of a list of errors.
RECURSIVE JoinedFrom(_, _)
JoinedFrom(errors, i) ==
    IF i > Len(errors) THEN ""
    ELSE IF i = Len(errors) THEN errors[i].msg
    ELSE errors[i].msg \o "; " \o JoinedFrom(errors, i + 1)

CombinedText(errors) == "transform_" \o run.side \o "(): " \o JoinedFrom(errors, 1)

C12_WitnessUndeclared ==
    /\ Ran
    /\ BodyRenderFailed
    /\ IsTransformationError(BodyRender.err)
    /\ Completed
    /\ CallsIn("remove") # <<>>

\* The errors of the renders that failed, in the order of the renders.
RECURSIVE FailuresFrom(_)
FailuresFrom(i) ==
    IF i > Len(run.renders) THEN <<>>
    ELSE (IF run.renders[i].r.ok THEN <<>> ELSE <<run.renders[i].r.err>>)
         \o FailuresFrom(i + 1)

\* The headers the recorded calls leave when applied, in order, to hs.
RECURSIVE HeadersAfterCalls(_, _)
HeadersAfterCalls(hs, i) ==
    IF i > Len(run.calls) THEN hs
    ELSE LET c == run.calls[i]
         IN HeadersAfterCalls(
               CASE c.op = Op("set") -> HeaderSet(hs, c.key, c.value)
                 [] c.op = Op("add") -> HeaderAdd(hs, c.key, c.value)
                 [] c.op = Op("remove") -> HeaderRemove(hs, c.key)
                 [] OTHER -> hs,
               i + 1)

(* C13: an orchestration that is not aborted returns success exactly when   *)
(* no render failed in the body, set and add phases; otherwise it returns   *)
(* one combined error whose text holds every failure in the order recorded; *)
(* in both cases the headers are those the calls made leave: nothing is     *)
(* rolled back.                                                             *)
C13_CombinedError ==
    (Ran /\ Completed) =>
        /\ run.ret.ok <=> FailuresFrom(1) = <<>>
        /\ ~run.ret.ok =>
              /\ run.ret.err.type = "anyhow"
              /\ run.ret.err.msg = CombinedText(FailuresFrom(1))
        /\ HeadersOf(run.after) = HeadersAfterCalls(HeadersOf(run.before), 1)

\* Two failures recorded, with mutations made before and after them.
C13_Witness ==
    /\ Ran
    /\ Completed
    /\ Len(FailuresFrom(1)) = 2
    /\ HeadersOf(run.after) # HeadersOf(run.before)

\* The transforms without add, set, remove and body template: the body
\* transform absent, or present with an empty template and mode AsString.
EmptyTransforms ==
    {LocalTransform(<<>>, <<>>, <<>>, b) :
        b \in {None, Some(BodyTransform(AsString, T_EMPTY))}}

\* The orchestration of the side on transform t and the message as it is.
OrchestrationOf(side, t) ==
    IF side = REQUEST
    THEN transform_request(get_env(filter), t, create_headers_map(envoy.request_headers),
                           EnvoyTransformationOps_new(envoy))
    ELSE transform_response(get_env(filter), t, get_request_headers_map(filter),
                            create_headers_map(envoy.response_headers),
                            EnvoyTransformationOps_new(envoy))

\* The orchestrator, on an empty transform and the message as it is, calls
\* nothing and returns Ok(()).
EmptyOrchestrationIdle ==
    \A side \in {REQUEST, RESPONSE} : \A t \in EmptyTransforms :
        \E s \in {OrchestrationOf(side, t)} :
            /\ s.o.calls = <<>>
            /\ s.renders = <<>>
            /\ s.o.envoy_filter = envoy
            /\ s.ret = Some([ok |-> TRUE])

\* The transform the callback of the step is about is absent or empty.
NothingToTransform ==
    LET t == IF phase \in {"request_headers", "request_body"}
             THEN get_request_transform(filter')
             ELSE get_response_transform(filter')
    IN ~IsSome(t) \/ t.v \in EmptyTransforms

CallbackSkips ==
    NothingToTransform =>
        /\ status'.ret = Continue
        /\ ~status'.ran
        /\ envoy' = envoy
        /\ run' = run

(* C14: on an empty transform the orchestrator makes no call on the host    *)
(* and returns success; and every callback whose transform is empty or      *)
(* absent returns Continue and leaves the message as it is.                 *)
C14_EmptyTransformIdle == [](EmptyOrchestrationIdle) /\ [][CallbackSkips]_vars

\* A callback returned for a transform that is configured and empty, on a
\* message with headers and a body.
C14_Witness ==
    /\ status.callback = "on_request_body"
    /\ IsSome(get_request_transform(filter))
    /\ get_request_transform(filter).v \in EmptyTransforms
    /\ envoy.request_headers # <<>>
    /\ IsSome(envoy.buffered_request_body)
    /\ status.ret = Continue

\* The transforms of the configuration in use.
ConfiguredTransforms ==
    {t.v : t \in {x \in {get_request_transform(filter), get_response_transform(filter)} :
                     IsSome(x)}}

BodyCalls ==
    SelectSeq(run.calls,
              LAMBDA c : c.op \in {BodyOp("get"), BodyOp("drain"), BodyOp("append"),
                                   "parse_" \o run.side \o "_json_body"})

(* C15: LocalTransform::is_empty is true exactly when add, set and remove   *)
(* are empty and the body transform is absent or empty, a body transform    *)
(* being empty exactly when its template is empty and its mode is AsString; *)
(* an orchestration with an empty body transform makes no body call.        *)
C15_IsEmpty ==
    /\ \A t \in ConfiguredTransforms :
          /\ LocalTransform_is_empty(t) <=>
                /\ Len(t.add) = 0
                /\ Len(t.set) = 0
                /\ Len(t.remove) = 0
                /\ IsSome(t.body) =>
                      (t.body.v.value = "" /\ t.body.v.parse_as = AsString)
          /\ IsSome(t.body) =>
                (BodyTransform_is_empty(t.body.v) <=>
                    (t.body.v.value = "" /\ t.body.v.parse_as = AsString))
    /\ (Ran /\ IsSome(Transform.body) /\ Transform.body.v.value = ""
            /\ Transform.body.v.parse_as = AsString) => BodyCalls = <<>>

\* An orchestration with an empty body transform on a message with a body.
C15_Witness ==
    /\ Ran
    /\ IsSome(Transform.body)
    /\ Transform.body.v.value = ""
    /\ Transform.body.v.parse_as = AsString
    /\ BodyOf(run.before) # ""
    /\ run.calls # <<>>

\* A configured transform that is not empty only for its mode AsJson.
C15_WitnessAsJson ==
    \E t \in ConfiguredTransforms :
        /\ t.add = <<>> /\ t.set = <<>> /\ t.remove = <<>>
        /\ IsSome(t.body)
        /\ t.body.v.value = ""
        /\ ~LocalTransform_is_empty(t)

\* What the evaluation of a template in the context of the orchestration
\* gives, with no check before it.
Evaluated(template) ==
    LET r == RenderSegments(Compile(template), 1, run.ctx)
    IN IF r.ok THEN Ok(r.s) ELSE Err(RenderError(template))

\* The variables a template text names, the called functions apart.
RECURSIVE ExprVariables(_)
ExprVariables(e) ==
    CASE e.e = "var" -> {e.n}
      [] e.e = "call" -> UNION {ExprVariables(e.args[i]) : i \in DOMAIN e.args}
      [] e.e = "attr" -> ExprVariables(e.args[1])
      [] OTHER -> {}

TemplateVariables(template) ==
    LET tmpl == Compile(template)
    IN UNION {CASE tmpl[i].t = "emit" -> ExprVariables(tmpl[i].e)
                [] tmpl[i].t = "if" -> ExprVariables(tmpl[i].c)
                [] OTHER -> {} : i \in DOMAIN tmpl}

\* The template names a variable that is no registered function.
Flagged(template) == \E v \in TemplateVariables(template) : v \notin GLOBALS_LOOKUP

(* C16: a render with parsed_body_as_json false fails with                  *)
(* UndeclaredJsonVariables, whatever the evaluation would give, exactly     *)
(* when the template names a variable that is no registered function; a    *)
(* template of function calls, literals and control flow only is evaluated; *)
(* with parsed_body_as_json true every template is evaluated.               *)
C16_UndeclaredCheck ==
    Ran =>
        \A i \in DOMAIN run.renders :
            LET rr == run.renders[i]
            IN IF ~rr.parsed_body_as_json /\ Flagged(rr.template)
               THEN rr.r = Err(UndeclaredJsonVariables(rr.template))
               ELSE rr.r = Evaluated(rr.template)

\* The control-flow template of the tests renders with JSON mode off.
C16_Witness ==
    /\ Ran
    /\ \E i \in DOMAIN run.renders :
          /\ run.renders[i].template = T_IF
          /\ ~run.renders[i].parsed_body_as_json
          /\ run.renders[i].r = Ok("supersuper")

\* The check comes before the evaluation: a template that names a JSON
\* variable and whose evaluation fails is reported as undeclared.
C16_WitnessBeforeEvaluation ==
    /\ Ran
    /\ \E i \in DOMAIN run.renders :
          /\ run.renders[i].template = T_VAR_BAD_CALL
          /\ ~run.renders[i].parsed_body_as_json
          /\ IsTransformationError(run.renders[i].r.err)
          /\ ~Evaluated(T_VAR_BAD_CALL).ok

C16_WitnessParsed ==
    /\ Ran
    /\ \E i \in DOMAIN run.renders :
          /\ Flagged(run.renders[i].template)
          /\ run.renders[i].parsed_body_as_json
          /\ run.renders[i].r.ok

C16_WitnessFunction ==
    /\ Ran
    /\ \E i \in DOMAIN run.renders :
          /\ run.renders[i].template = T_HEADER
          /\ ~run.renders[i].parsed_body_as_json
          /\ run.renders[i].r = Ok("hv")

\* The context before the JSON step: the two header maps.
HeaderContext ==
    Insert(Insert(EmptyMap, STATE_LOOKUP_KEY_HEADERS,
                  HeadersValue(IF run.side = REQUEST THEN run.request_headers_map
                               ELSE run.response_headers_map)),
           STATE_LOOKUP_KEY_REQ_HEADERS, HeadersValue(run.request_headers_map))

\* Mode AsJson, and the parse of the body did not fail.
JsonParsed ==
    /\ IsSome(Transform.body)
    /\ Transform.body.v.parse_as = AsJson
    /\ ~ParseAborted

\* What the parse gave: null for no body, else the value of the bytes.
ParsedValue ==
    IF BodyOf(run.before) = "" THEN VNull ELSE from_slice(BodyOf(run.before)).v

\* The context with the binding for body(), when the template asks for it.
WithBodyBinding(m) ==
    IF ContainsBodyCall(Transform.body.v.value)
    THEN Insert(m, STATE_LOOKUP_KEY_BODY, VStr(BodyOf(run.before)))
    ELSE m

NamesContext == ContainsContextCall(Transform.body.v.value)

(* C17 as stated: with mode AsJson the parsed body changes the context only *)
(* when it is a non-null object: then its top-level fields become context   *)
(* keys and, if the body template names context(), the whole value is bound *)
(* under the context() key.                                                 *)
C17_ObjectsOnly ==
    (Ran /\ JsonParsed) =>
        run.ctx = WithBodyBinding(
                     IF ParsedValue.k = "map"
                     THEN ParsedValue.m @@
                             (IF NamesContext
                              THEN Insert(HeaderContext, STATE_LOOKUP_KEY_CONTEXT, ParsedValue)
                              ELSE HeaderContext)
                     ELSE HeaderContext)

(* C17 amended: with mode AsJson the parsed body changes the context only   *)
(* when it is not null: then the whole value is bound under the context()   *)
(* key if the body template names context(), whatever the kind of the       *)
(* value, and the top-level fields of an object become context keys.        *)
C17_NonNullValues ==
    (Ran /\ JsonParsed) =>
        run.ctx = WithBodyBinding(
                     LET bound == IF ParsedValue # VNull /\ NamesContext
                                  THEN Insert(HeaderContext, STATE_LOOKUP_KEY_CONTEXT,
                                              ParsedValue)
                                  ELSE HeaderContext
                     IN IF ParsedValue.k = "map" THEN ParsedValue.m @@ bound ELSE bound)

\* A body that parses to a number is bound under the context() key.
C17_Witness ==
    /\ Ran
    /\ JsonParsed
    /\ NamesContext
    /\ ParsedValue.k = "num"
    /\ STATE_LOOKUP_KEY_CONTEXT \in DOMAIN run.ctx
    /\ run.ctx[STATE_LOOKUP_KEY_CONTEXT] = ParsedValue

C17_WitnessObject ==
    /\ Ran
    /\ JsonParsed
    /\ NamesContext
    /\ ParsedValue.k = "map"
    /\ "k" \in DOMAIN run.ctx
    /\ STATE_LOOKUP_KEY_CONTEXT \in DOMAIN run.ctx

C17_WitnessNull ==
    /\ Ran
    /\ JsonParsed
    /\ NamesContext
    /\ BodyOf(run.before) = B_NULL
    /\ run.ctx = HeaderContext

\* The indices of the calls of an operation.
CallIndices(op) == {i \in DOMAIN run.calls : run.calls[i].op = op}

\* The raw body was fetched from the host.
Fetched == CallIndices(BodyOp("get")) # {}

\* A body transform is configured and its template names body().
NamesBody == IsSome(Transform.body) /\ ContainsBodyCall(Transform.body.v.value)

\* The raw body is fetched exactly when the template names body(); it is
\* fetched once, before the drain, and bound as the original body, which is
\* what the template's body() prints.
FetchedWhenNamed ==
    /\ Fetched <=> NamesBody
    /\ Fetched =>
          /\ Cardinality(CallIndices(BodyOp("get"))) = 1
          /\ \A i \in CallIndices(BodyOp("get")) : \A j \in CallIndices(BodyOp("drain")) :
                i < j
          /\ STATE_LOOKUP_KEY_BODY \in DOMAIN run.ctx
          /\ run.ctx[STATE_LOOKUP_KEY_BODY] = VStr(BodyOf(run.before))
          /\ Transform.body.v.value = T_BODY => BodyRender = Ok(BodyOf(run.before))

(* C18 as stated: the raw body is fetched and bound for body() exactly when *)
(* a body transform is configured and its template names body(), whatever   *)
(* the mode and the outcome of the JSON parse; the fetch comes before the   *)
(* drain, so that body() gives the original body.                           *)
C18_AnyParseOutcome == Ran => FetchedWhenNamed

(* C18 amended: the same, for every mode and every outcome of the JSON      *)
(* parse but its failure; when the parse fails the orchestration returns    *)
(* before the fetch and the raw body is not fetched.                        *)
C18_UnlessParseFails ==
    Ran => IF ParseAborted THEN ~Fetched ELSE FetchedWhenNamed

\* The body was parsed as JSON, fetched, and then replaced by its own text.
C18_Witness ==
    /\ Ran
    /\ JsonParsed
    /\ ParsedValue # VNull
    /\ Fetched
    /\ CallIndices(BodyOp("drain")) # {}
    /\ BodyOf(run.after) = BodyOf(run.before)

\* The parse failed under a template that names body().
C18_WitnessParseFails == Ran /\ ParseAborted /\ NamesBody

\* The value of header name n in a headers map, the empty string without it.
MapGet(map, n) == IF n \in DOMAIN map THEN map[n] ELSE ""

\* The headers map header() reads in the orchestration of the side.
CurrentHeadersMap ==
    IF run.side = RESPONSE THEN run.response_headers_map ELSE run.request_headers_map

(* C19: in transform_response header(name) gives the value of the response  *)
(* headers map and request_header(name) the value of the request headers    *)
(* map; in transform_request both give the value of the request headers     *)
(* map.                                                                     *)
C19_HeaderMaps ==
    Ran =>
        \A i \in DOMAIN run.renders :
            LET rr == run.renders[i]
            IN /\ (rr.template = T_HEADER /\ rr.r.ok)
                     => rr.r.s = MapGet(CurrentHeadersMap, "x-a")
               /\ (rr.template = T_REQ_HEADER /\ rr.r.ok)
                     => rr.r.s = MapGet(run.request_headers_map, "x-a")

\* A response whose header differs from the request's: header() gave the
\* response's value.
C19_Witness ==
    /\ Ran
    /\ run.side = RESPONSE
    /\ MapGet(run.response_headers_map, "x-a") = "hv"
    /\ MapGet(run.request_headers_map, "x-a") = "rv"
    /\ \E i \in DOMAIN run.renders :
          run.renders[i].template = T_HEADER /\ run.renders[i].r = Ok("hv")
    /\ HeaderValues(run.after.response_headers, "x-b") = <<"hv">>

C19_WitnessRequestHeader ==
    /\ Ran
    /\ run.side = RESPONSE
    /\ MapGet(run.response_headers_map, "x-a") = "hv"
    /\ \E i \in DOMAIN run.renders :
          run.renders[i].template = T_REQ_HEADER /\ run.renders[i].r = Ok("rv")

C19_WitnessRequest ==
    /\ Ran
    /\ run.side = REQUEST
    /\ \E i \in DOMAIN run.renders :
          /\ run.renders[i].template = T_HEADER /\ run.renders[i].r = Ok("hv")
    /\ run.request_headers_map = create_headers_map(run.before.request_headers)

\* The response operation that matches a request operation.
ResponseOp(op) ==
    CASE op = "add_request_header" -> "add_response_header"
      [] op = "set_request_header" -> "set_response_header"
      [] op = "remove_request_header" -> "remove_response_header"
      [] op = "parse_request_json_body" -> "parse_response_json_body"
      [] op = "get_request_body" -> "get_response_body"
      [] op = "drain_request_body" -> "drain_response_body"
      [] op = "append_request_body" -> "append_response_body"

Renamed(calls) == [i \in DOMAIN calls |-> [calls[i] EXCEPT !.op = ResponseOp(@)]]

\* transform_request on a request with headers h and body b, and
\* transform_response on a response with the same headers and body, the
\* response headers map being the request headers map.
MirrorRuns(t, h, b) ==
    LET env == create_env_with_templates([request |-> Some(t), response |-> Some(t)]).v
        map == create_headers_map(h)
    IN [rq |-> transform_request(env, t, map,
                   EnvoyTransformationOps_new(Envoy(h, b, <<>>, NoBody))),
        rs |-> transform_response(env, t, map, map,
                   EnvoyTransformationOps_new(
                      Envoy(<<>>, None, h, [buffered |-> b, received |-> None])))]

\* The same result: Ok, or an error of the same kind about the same
\* failures (the texts name the function and the operation).
SameOutcome(a, b) ==
    /\ a.ok = b.ok
    /\ ~a.ok =>
          /\ a.err.type = b.err.type
          /\ a.err.type = "anyhow" => a.err.causes = b.err.causes
          /\ IsTransformationError(a.err) => a.err = b.err

SameRenders(a, b) ==
    /\ Len(a) = Len(b)
    /\ \A i \in DOMAIN a :
          /\ a[i].template = b[i].template
          /\ a[i].at = b[i].at
          /\ a[i].r = b[i].r

Mirrored(pr) ==
    /\ pr.rs.o.calls = Renamed(pr.rq.o.calls)
    /\ SameOutcome(pr.rq.ret.v, pr.rs.ret.v)
    /\ SameRenders(pr.rq.renders, pr.rs.renders)
    /\ pr.rs.o.envoy_filter.response_headers = pr.rq.o.envoy_filter.request_headers
    /\ pr.rs.o.envoy_filter.buffered_response_body
          = pr.rq.o.envoy_filter.buffered_request_body

\* The messages of the state that no transform has rewritten: the request
\* and the response.
MessagesNow ==
    {msg \in {[h |-> envoy.request_headers, b |-> envoy.buffered_request_body],
              [h |-> envoy.response_headers, b |-> envoy.buffered_response_body]} :
        msg.b \in Bodies}

C20_WitnessParseFails ==
    \E t \in ConfiguredTransforms : \E msg \in MessagesNow :
        \E pr \in {MirrorRuns(t, msg.h, msg.b)} :
            /\ ~pr.rq.ret.v.ok
            /\ IsSerdeJsonError(pr.rq.ret.v.err)
            /\ IsSerdeJsonError(pr.rs.ret.v.err)

\* The orchestration of the last run started again by the filter as it is
\* now: the same transform, headers maps and message, a new
\* EnvoyTransformationOps.
Rerun ==
    IF run.side = REQUEST
    THEN transform_request(get_env(filter), run.transform, run.request_headers_map,
                           EnvoyTransformationOps_new(run.before))
    ELSE transform_response(get_env(filter), run.transform, run.request_headers_map,
                            run.response_headers_map,
                            EnvoyTransformationOps_new(run.before))

SameAsRun(s) ==
    /\ s.o.calls = run.calls
    /\ s.ret.v = run.ret
    /\ s.errors = run.errors
    /\ s.renders = run.renders
    /\ s.o.envoy_filter = run.after

RECURSIVE BytesOf(_)
BytesOf(text) ==
    IF text = <<>> THEN <<>>
    ELSE [k \in 1..Head(text)[2] |-> <<Head(text)[1], k>>] \o BytesOf(Tail(text))

SubstringCalled == lib.call.fn = "substring"

Min(a, b) == IF a <= b THEN a ELSE b

\* Where the slice the claim describes ends.
ClaimedEnd ==
    IF IsSome(lib.call.len)
    THEN Min(lib.call.start + lib.call.len.v, str_len(lib.call.input))
    ELSE str_len(lib.call.input)

\* start + length fits the word, and the slice the claim describes starts
\* and ends between two characters.
SubstringInRange ==
    /\ IsSome(lib.call.len) => lib.call.start + lib.call.len.v <= usize_MAX
    /\ is_char_boundary(lib.call.input, lib.call.start)
    /\ is_char_boundary(lib.call.input, ClaimedEnd)

C22_WitnessPastEnd ==
    /\ SubstringCalled
    /\ lib.call.input # <<>>
    /\ lib.call.start >= str_len(lib.call.input)
    /\ lib.call.r.v = <<>>

C22_WitnessInside ==
    /\ SubstringCalled
    /\ IsSome(lib.call.len)
    /\ lib.call.len.v > 0
    /\ lib.call.start + lib.call.len.v < str_len(lib.call.input)
    /\ ~lib.call.r.panic
    /\ Len(lib.call.r.v) = lib.call.len.v

(* C23: substring never raises: for every text, start and length of the     *)
(* word's range it returns a string, and the bounds of the slice it takes   *)
(* satisfy start <= end <= len(text).                                       *)
C23_SubstringNeverRaises ==
    SubstringCalled =>
        /\ ~lib.call.r.panic
        /\ lib.call.r.sliced =>
              /\ lib.call.r.start <= lib.call.r.end
              /\ lib.call.r.end <= str_len(lib.call.input)

\* The calls that raise: the sum passes the word's maximum, or a bound of
\* the slice falls inside a character.
C23_RaisesOnlyOutOfRange ==
    SubstringCalled /\ lib.call.r.panic =>
        \/ IsSome(lib.call.len) /\ lib.call.start + lib.call.len.v > usize_MAX
        \/ ~is_char_boundary(lib.call.input, lib.call.start)
        \/ ~is_char_boundary(lib.call.input, ClaimedEnd)

\* A release build wrapped the sum and sliced with end < start.
C23_WitnessWrapped ==
    /\ SubstringCalled
    /\ lib.call.r.panic
    /\ lib.call.r.sliced
    /\ lib.call.r.end < lib.call.r.start

HeaderLookupCalled == lib.call.fn \in {"header", "request_header"}

\* The headers map the lookup reads, if the context holds one.
LookedUpMap ==
    LET v == StateLookup(lib.call.ctx, lib.call.lookup)
    IN IF IsSome(v) /\ IsHeaderMap(v.v) THEN Some(v.v.m) ELSE None

\* Equality of two names up to letter case.
SameName(a, b) == to_lowercase(a) = to_lowercase(b)

(* C24: header(name) and request_header(name) return the value stored       *)
(* under a key equal to name up to letter case, whatever the case of the    *)
(* stored key and of name, and the empty string when there is no such key   *)
(* or the context value is not a headers map.                               *)
C24_CaseInsensitive ==
    HeaderLookupCalled =>
        IF IsSome(LookedUpMap)
           /\ \E k \in DOMAIN LookedUpMap.v : SameName(k, lib.call.key)
        THEN \E k \in DOMAIN LookedUpMap.v :
                SameName(k, lib.call.key) /\ lib.call.r = LookedUpMap.v[k].s
        ELSE lib.call.r = ""

\* C24 for the maps whose keys are in lower case: the value stored under
\* the name in lower case, and the empty string when there is no such key,
\* no value in the context or one that is not a headers map.
C24_LowerCaseKeys ==
    HeaderLookupCalled =>
        IF ~IsSome(LookedUpMap) THEN lib.call.r = ""
        ELSE (\A k \in DOMAIN LookedUpMap.v : k = to_lowercase(k)) =>
                IF \E k \in DOMAIN LookedUpMap.v : SameName(k, lib.call.key)
                THEN lib.call.r = LookedUpMap.v[to_lowercase(lib.call.key)].s
                ELSE lib.call.r = ""

\* A name in upper case found a key in lower case.
C24_WitnessUpperName ==
    /\ HeaderLookupCalled
    /\ lib.call.key = "X-A"
    /\ lib.call.r = "va"

\* A key stored in upper case was not found.
C24_WitnessUpperKey ==
    /\ HeaderLookupCalled
    /\ IsSome(LookedUpMap)
    /\ "X-A" \in DOMAIN LookedUpMap.v
    /\ lib.call.key = "x-a"
    /\ lib.call.r = ""

LoaderCalled == lib.call.fn = "FilterConfig::new"

\* The document without the fields the configuration does not have.
RECURSIVE Stripped(_)
Stripped(v) ==
    CASE v.k = "map" ->
            VMap([n \in DOMAIN v.m \ {"foo"} |-> Stripped(v.m[n])])
      [] v.k = "seq" -> VSeq([i \in DOMAIN v.s |-> Stripped(v.s[i])])
      [] OTHER -> v

HasUnknownField(v) == Stripped(v) # v

\* The template texts of a transform that are not empty.
TemplateTexts(t) ==
    IF ~IsSome(t) THEN {}
    ELSE ({t.v.add[i].value : i \in DOMAIN t.v.add}
          \cup {t.v.set[i].value : i \in DOMAIN t.v.set}
          \cup (IF IsSome(t.v.body) THEN {t.v.body.v.value} ELSE {})) \ {""}

\* The registry holds a compiled template for every template of the
\* configuration that is not empty.
RegistryComplete(fc) ==
    /\ \A side \in {REQUEST, RESPONSE} :
          LET t == fc.transformations[side]
          IN /\ \A i \in DOMAIN (IF IsSome(t) THEN t.v.add ELSE <<>>) :
                   t.v.add[i].value # "" => t.v.add[i].value \in DOMAIN fc.env
             /\ \A i \in DOMAIN (IF IsSome(t) THEN t.v.set ELSE <<>>) :
                   t.v.set[i].value # "" => t.v.set[i].value \in DOMAIN fc.env
             /\ IsSome(t) /\ IsSome(t.v.body) /\ t.v.body.v.value # ""
                   => BodyTemplateKey(side) \in DOMAIN fc.env
    /\ \A key \in DOMAIN fc.env : ~HasSyntaxError(fc.env[key].source)

(* C25: FilterConfig::new returns a complete configuration (the parsed      *)
(* document and a registry in which every template compiled) or none: a     *)
(* malformed document or a template with a syntax error gives None, and     *)
(* the fields the configuration does not have change nothing.               *)
C25_AllOrNothing ==
    LoaderCalled =>
        /\ lib.call.doc.written = "valid" <=> IsSome(lib.call.r)
        /\ IsSome(lib.call.r) =>
              /\ from_str(lib.call.doc.text).ok
              /\ lib.call.r.v.transformations = from_str(lib.call.doc.text).v
              /\ RegistryComplete(lib.call.r.v)
        /\ lib.call.r = FilterConfig_new(Stripped(lib.call.doc.text))

\* A document with templates and fields the configuration does not have was
\* loaded.
C25_Witness ==
    /\ LoaderCalled
    /\ HasUnknownField(lib.call.doc.text)
    /\ IsSome(lib.call.r)
    /\ DOMAIN lib.call.r.v.env # {}

C25_WitnessMalformed ==
    /\ LoaderCalled
    /\ lib.call.doc.written = "malformed"
    /\ lib.call.doc.text # NotJson
    /\ lib.call.r = None

C25_WitnessSyntaxError ==
    /\ LoaderCalled
    /\ lib.call.doc.written = "bad template"
    /\ from_str(lib.call.doc.text).ok
    /\ lib.call.r = None

\* The orchestration of an evaluation run on its own, from where the
\* evaluation started.
Alone(e) ==
    IF e.side = REQUEST
    THEN transform_request(get_env(e.filter), e.transform,
                           get_request_headers_map(e.filter),
                           EnvoyTransformationOps_new(e.host))
    ELSE transform_response(get_env(e.filter), e.transform,
                            get_request_headers_map(e.filter),
                            create_headers_map(e.host.response_headers),
                            EnvoyTransformationOps_new(e.host))

EvalsRunning == IsSome(evals.shared)

\* Every evaluation that has finished made the calls and returned the
\* result of its orchestration run alone.
FinishedAsAlone ==
    EvalsRunning =>
        \A st \in Streams :
            evals.t[st].pc = "done" =>
                \E a \in {Alone(evals.start[st])} :
                    /\ evals.t[st].s.o.calls = a.o.calls
                    /\ evals.t[st].s.ret = a.ret
                    /\ evals.t[st].s.errors = a.errors
                    /\ evals.t[st].s.o.envoy_filter = a.o.envoy_filter

\* A step leaves the shared configuration, with its template registry, and
\* the registry of functions as they are, and changes the state of one
\* evaluation only.
StepIsPrivate ==
    EvalsRunning =>
        /\ evals'.shared = evals.shared
        /\ \E st \in Streams :
              \A other \in Streams \ {st} : evals'.t[other] = evals.t[other]
        /\ \A st \in Streams :
              get_env(evals'.t[st].filter) = get_env(evals.t[st].filter)

C26_WitnessInterleaved ==
    /\ EvalsRunning
    /\ \E st \in Streams, other \in Streams :
          /\ evals.t[st].pc = "set"
          /\ evals.t[other].pc = "add"
          /\ evals.t[other].s.o.calls # <<>>

JsonRequested == IsSome(Transform.body) /\ Transform.body.v.parse_as = AsJson

\* The message the orchestration started from has no body, or one of zero
\* length.
NoBodyBytes ==
    IF run.side = REQUEST
    THEN run.before.buffered_request_body \in {None, Some(<<>>)}
    ELSE /\ run.before.buffered_response_body \in {None, Some(<<>>)}
         /\ run.before.buffered_response_body = None
               => run.before.received_response_body \in {None, Some(<<>>)}

\* What the host's parse operation returns on the message the orchestration
\* started from.
HostParse ==
    parse_json_body(run.side, EnvoyTransformationOps_new(run.before), <<"context", 1>>).r

\* The phases after the context ran: the body template was rendered, every
\* entry of set up to one that aborts and, unless one aborts, every entry
\* of add and of remove was handled, and the orchestration ended in
\* combine_errors or in the abort of a header entry.
LaterPhasesRan ==
    /\ Transform.body.v.value # "" =>
          \E i \in DOMAIN run.renders : run.renders[i].at = <<"body", 1>>
    /\ \A i \in DOMAIN Transform.set :
          SetPassed(i - 1) =>
             \/ \E j \in DOMAIN run.renders : run.renders[j].at = <<"set", i>>
             \/ CallsAt(<<"set", i>>) # <<>>
    /\ NoAbort =>
          /\ \A i \in DOMAIN Transform.remove : Len(CallsAt(<<"remove", i>>)) = 1
          /\ Completed
    /\ Completed \/ UndeclaredAborted

C27_WitnessAbsentResponse ==
    /\ JustRan
    /\ run.side = RESPONSE
    /\ JsonRequested
    /\ run.before.buffered_response_body = None
    /\ run.before.received_response_body = None
    /\ Transform.body.v.value # ""
    /\ Completed

\* The names a compiled template calls as functions.
RECURSIVE ExprCalls(_)
ExprCalls(e) ==
    CASE e.e = "call" -> {e.n} \cup UNION {ExprCalls(e.args[i]) : i \in DOMAIN e.args}
      [] e.e = "attr" -> ExprCalls(e.args[1])
      [] OTHER -> {}

TemplateCalls(template) ==
    LET tmpl == Compile(template)
    IN UNION {CASE tmpl[i].t = "emit" -> ExprCalls(tmpl[i].e)
                [] tmpl[i].t = "if" -> ExprCalls(tmpl[i].c)
                [] OTHER -> {} : i \in DOMAIN tmpl}

\* The context of the orchestration without the entries that have the name
\* of a registered function: every call resolves to the library.
LibraryFirst(ctx) == [n \in DOMAIN ctx \ GLOBALS_LOOKUP |-> ctx[n]]

\* The renders of the orchestration that evaluated a template calling a
\* registered function.
FunctionRenders ==
    {i \in DOMAIN run.renders :
        /\ run.renders[i].template # ""
        /\ TemplateCalls(run.renders[i].template) # {}
        /\ TemplateCalls(run.renders[i].template) \subseteq GLOBALS_LOOKUP
        /\ ~(~run.renders[i].r.ok /\ IsTransformationError(run.renders[i].r.err))}

(* C28: every registered function is available in every template: in every *)
(* context the orchestrator builds, one with the fields of a JSON body      *)
(* merged in included, a call of a registered name resolves to the library  *)
(* function, so the render gives what the library function gives.           *)
C28_FunctionsAvailable ==
    Ran =>
        \A i \in FunctionRenders :
            LET expected == RenderSegments(Compile(run.renders[i].template), 1,
                                           LibraryFirst(run.ctx))
            IN /\ run.renders[i].r.ok = expected.ok
               /\ expected.ok => run.renders[i].r.s = expected.s

\* The same for the contexts in which no name of a registered function is
\* bound.
C28_UnlessShadowed ==
    Ran /\ DOMAIN run.ctx \cap GLOBALS_LOOKUP = {} =>
        \A i \in FunctionRenders :
            LET expected == RenderSegments(Compile(run.renders[i].template), 1,
                                           LibraryFirst(run.ctx))
            IN /\ run.renders[i].r.ok = expected.ok
               /\ expected.ok => run.renders[i].r.s = expected.s

\* env('HOME') was rendered in a context with merged JSON fields and gave
\* the variable of the process.
C28_WitnessMerged ==
    /\ JustRan
    /\ run.parsed_body_as_json
    /\ \E i \in FunctionRenders :
          /\ run.renders[i].template = T_ENV
          /\ run.renders[i].r = Ok("/home/envoy")

\* env('HOME') failed to render in a context in which the JSON body bound
\* env.
C28_WitnessShadowed ==
    /\ JustRan
    /\ "env" \in DOMAIN run.ctx
    /\ \E i \in FunctionRenders :
          /\ run.renders[i].template = T_ENV
          /\ ~run.renders[i].r.ok

\* Where the stream is: the callbacks of the request come before those of
\* the response, the headers callback of a message before its body
\* callbacks.
StreamPosition(ph) ==
    CASE ph = "request_headers" -> 0
      [] ph = "request_body" -> 1
      [] ph = "response_headers" -> 2
      [] ph = "response_body" -> 3
      [] ph = "done" -> 4

SideOfPhase(ph) ==
    IF ph \in {"request_headers", "request_body"} THEN REQUEST ELSE RESPONSE

\* A callback of a message whose transform is not empty: before the end of
\* the stream it returns its stop status and leaves the message, the local
\* replies and the record of the last orchestration as they are, and more
\* body callbacks of the message follow; at the end of the stream it runs
\* the transformation of the message, and the callbacks of the message are
\* over.
CallbackBuffersUntilEnd ==
    ~NothingToTransform =>
        /\ status'.callback = "on_" \o phase
        /\ ~status'.end_of_stream =>
              /\ status'.ret = StopStatusOf(status'.callback)
              /\ ~status'.ran
              /\ envoy' = envoy
              /\ run' = run
              /\ SideOfPhase(phase') = SideOfPhase(phase)
              /\ phase' \in {"request_body", "response_body"}
        /\ status'.end_of_stream =>
              /\ status'.ran
              /\ run'.side = SideOfPhase(phase)
              /\ run'.transform \notin EmptyTransforms
              /\ run'.before = envoy
              /\ StreamPosition(phase') > StreamPosition(phase)
              /\ phase' = "done" \/ SideOfPhase(phase') # SideOfPhase(phase)

\* The stream only moves forward: no callback of a message comes after the
\* callback that ended it.
StreamMovesForward == StreamPosition(phase') >= StreamPosition(phase)

(* C29: for a filter with a non-empty request (response) transform and a    *)
(* headers callback followed by body callbacks of which only the last has   *)
(* end_of_stream = true: every callback with end_of_stream = false returns  *)
(* its stop status (StopIteration for headers, StopIterationAndBuffer for   *)
(* body) and changes neither headers nor body, and the transformation runs  *)
(* once, in the callback with end_of_stream = true.                         *)
C29_RunsOnceAtEnd == [][CallbackBuffersUntilEnd /\ StreamMovesForward]_vars

\* The body callback that ended a stream ran the transformation, after the
\* callbacks before it had returned their stop status.
C29_Witness ==
    /\ status.callback = "on_request_body"
    /\ status.end_of_stream
    /\ status.ran
    /\ run.side = REQUEST
    /\ Len(run.calls) >= 2
    /\ phase = "response_headers"

C29_WitnessBuffering ==
    /\ status.callback = "on_response_body"
    /\ ~status.end_of_stream
    /\ status.ret = StopIterationAndBuffer
    /\ ~status.ran
    /\ get_response_transform(filter) # None
    /\ run.side = "none"

\* The configuration the environment of the filter was built from.
ConfigInUse ==
    IF IsSome(filter.per_route_config)
    THEN filter.per_route_config.v.transformations
    ELSE filter.filter_config.transformations

\* The texts of the non-empty add and set templates of a transform.
HeaderTemplateTexts(t) ==
    IF ~IsSome(t) THEN {}
    ELSE {t.v.add[i].value : i \in DOMAIN t.v.add}
         \cup {t.v.set[i].value : i \in DOMAIN t.v.set}

BodyTemplateKeys ==
    {REQUEST_BODY_TEMPLATE_LOOKUP_KEY, RESPONSE_BODY_TEMPLATE_LOOKUP_KEY}

\* A header template of the configuration whose text is a lookup key of the
\* body templates.
KeyClash ==
    \E src \in HeaderTemplateTexts(ConfigInUse.request)
               \cup HeaderTemplateTexts(ConfigInUse.response) :
        src \in BodyTemplateKeys

\* The render found a compiled template under its key, and that template
\* was compiled from the text being rendered.
FoundOwnTemplate(rc) ==
    /\ rc.key \in DOMAIN get_env(filter)
    /\ rc.r.ok \/ rc.r.err # LookupError(rc.template)
    /\ get_env(filter)[rc.key].source = rc.template

RendersNow == {run.renders[i] : i \in DOMAIN run.renders}

(* C30: rendering any non-empty add, set or body template of an accepted    *)
(* configuration never fails with a template-lookup failure, and the        *)
(* compiled template under the lookup key has the source text of the        *)
(* template being rendered: header templates and body templates never       *)
(* alias one another.                                                       *)
C30_NoAliasing ==
    Ran => \A rc \in RendersNow :
              rc.template # "" => FoundOwnTemplate(rc)

\* The same, for the configurations in which no header template has the
\* text of a body lookup key.
C30_UnlessKeyClash ==
    (Ran /\ ~KeyClash) =>
        \A rc \in RendersNow : rc.template # "" => FoundOwnTemplate(rc)

\* A set template with the text request_body_0 was rendered next to a
\* request body template: the header took the text of the body template.
C30_WitnessAliased ==
    /\ JustRan
    /\ run.side = REQUEST
    /\ KeyClash
    /\ \E rc \in RendersNow :
          /\ rc.template = T_ALIAS
          /\ rc.key = REQUEST_BODY_TEMPLATE_LOOKUP_KEY
          /\ get_env(filter)[rc.key].source = T_LIT
          /\ rc.r = Ok("v1")
    /\ \E i \in DOMAIN run.after.request_headers :
          run.after.request_headers[i] = <<"x-b", "v1">>

\* Header and body templates of one configuration, each found under its own
\* key.
C30_WitnessDistinct ==
    /\ JustRan
    /\ ~KeyClash
    /\ \E r1, r2 \in RendersNow :
          /\ r1.key = REQUEST_BODY_TEMPLATE_LOOKUP_KEY
          /\ r2.key = r2.template
          /\ r1.template # "" /\ r2.template # ""
          /\ r1.template # r2.template
          /\ FoundOwnTemplate(r1) /\ FoundOwnTemplate(r2)

\* The host parse was asked for and returned a value that is not null.
ParsedNonNull == JsonRequested /\ HostParse.ok /\ HostParse.v # VNull

\* The templates of the set entries, then those of the add entries, in the
\* order the orchestration renders them.
HeaderTemplatesInOrder ==
    [i \in 1..(Len(Transform.set) + Len(Transform.add)) |->
        IF i <= Len(Transform.set) THEN Transform.set[i].value
        ELSE Transform.add[i - Len(Transform.set)].value]

\* The first set or add template that references a JSON variable, if any.
FirstJsonTemplate ==
    LET is == {i \in DOMAIN HeaderTemplatesInOrder :
                  ReferencesJsonVariable(HeaderTemplatesInOrder[i])}
    IN IF is = {} THEN None
       ELSE Some(HeaderTemplatesInOrder[CHOOSE i \in is : \A j \in is : i <= j])

C31_WitnessNumber ==
    /\ JustRan
    /\ JsonRequested
    /\ HostParse = [ok |-> TRUE, v |-> VNum(7)]
    /\ run.renders # <<>>
    /\ \A i \in DOMAIN run.renders : run.renders[i].parsed_body_as_json

\* The body null: parsed, and the flag is false.
C31_WitnessNull ==
    /\ JustRan
    /\ JsonRequested
    /\ BodyOf(run.before) = B_NULL
    /\ run.renders # <<>>
    /\ \A i \in DOMAIN run.renders : ~run.renders[i].parsed_body_as_json

\* The position, in HeaderTemplatesInOrder, of the entry that aborts: the
\* first whose render fails with the undeclared-variable condition.
AbortPosition ==
    LET is == {i \in DOMAIN HeaderTemplatesInOrder : Critical(HeaderTemplatesInOrder[i])}
    IN IF is = {} THEN 0 ELSE CHOOSE i \in is : \A j \in is : i <= j

\* The position of the entry a call was made for; 0 for the calls of the
\* context and of the body rewrite.
CallPosition(c) ==
    CASE c.at[1] = "set" -> c.at[2]
      [] c.at[1] = "add" -> Len(Transform.set) + c.at[2]
      [] c.at[1] = "remove" -> Len(Transform.set) + Len(Transform.add) + c.at[2]
      [] OTHER -> 0

\* The calls entry p makes when it does not abort: one set or remove for a
\* set entry, one add for an add entry whose render is not empty.
CallsExpectedAt(p) ==
    IF p <= Len(Transform.set) THEN 1
    ELSE IF RendersNonEmpty(HeaderTemplatesInOrder[p]) THEN 1 ELSE 0

\* The body the body rewrite leaves.
BodyAfterRewrite ==
    IF BodyRewritten
    THEN (IF BodyRender.ok THEN BodyRender.s ELSE "")
    ELSE BodyOf(run.before)

(* C32: when the undeclared-variable condition aborts an orchestration at a *)
(* set or add entry, the host operations issued are those of the body       *)
(* rewrite and of the entries before that entry, and none is undone: the    *)
(* message holds their effects when the critical failure is returned.       *)
C32_PartialMutationsKept ==
    (Ran /\ UndeclaredAborted) =>
        /\ AbortPosition > 0
        /\ \A i \in DOMAIN run.calls :
              /\ CallPosition(run.calls[i]) < AbortPosition
              /\ run.calls[i].at[1] # "remove"
        /\ \A q \in 1..(AbortPosition - 1) :
              Len(SelectSeq(run.calls, LAMBDA c : CallPosition(c) = q)) = CallsExpectedAt(q)
        /\ Len(CallsIn("body")) = (IF BodyRewritten THEN 3 ELSE 0)
        /\ HeadersOf(run.after) = HeadersAfterCalls(HeadersOf(run.before), 1)
        /\ BodyOf(run.after) = BodyAfterRewrite
        /\ JustRan =>
              /\ HeadersOf(envoy) = HeadersOf(run.after)
              /\ BodyOf(envoy) = BodyOf(run.after)
              /\ envoy = send_response(run.after, 400)

\* An add entry aborts after the body was rewritten and a set entry set its
\* header: the message has the new body and the new header.
C32_Witness ==
    /\ JustRan
    /\ UndeclaredAborted
    /\ AbortPosition > Len(Transform.set)
    /\ Len(Transform.set) > 0
    /\ HeadersOf(run.after) # HeadersOf(run.before)
    /\ CallsIn("set") # <<>>
    /\ status.ret # Continue

\* A set entry aborts after the body rewrite replaced the body.
C32_WitnessBody ==
    /\ JustRan
    /\ UndeclaredAborted
    /\ BodyRewritten
    /\ Len(CallsIn("body")) = 3
    /\ BodyOf(run.after) # BodyOf(run.before)
    /\ HeadersOf(run.after) # HeadersOf(run.before)

\* The failures recorded before the abort: those of the renders but the
\* last.
EarlierFailures ==
    LET all == FailuresFrom(1) IN SubSeq(all, 1, Len(all) - 1)

(* C33: when a set or add entry aborts the orchestration with the           *)
(* undeclared-variable condition, the error returned is that one            *)
(* UndeclaredJsonVariables error: the recoverable failures recorded earlier *)
(* in the orchestration (body render, earlier set and add entries) are not  *)
(* part of it.                                                              *)
C33_SingleError ==
    (Ran /\ ~ParseAborted /\ AbortPosition > 0) =>
        /\ run.ret = Err(UndeclaredJsonVariables(HeaderTemplatesInOrder[AbortPosition]))
        /\ run.ret.err = run.renders[Len(run.renders)].r.err
        /\ run.errors = EarlierFailures
        /\ run.ret.err.type # "anyhow"
        /\ "causes" \notin DOMAIN run.ret.err

\* The body render and a set entry failed before an add entry aborted.
C33_Witness ==
    /\ JustRan
    /\ UndeclaredAborted
    /\ AbortPosition > 0
    /\ Len(EarlierFailures) >= 1
    /\ \E i \in DOMAIN run.renders :
          /\ run.renders[i].at[1] = "set"
          /\ ~run.renders[i].r.ok
          /\ i < Len(run.renders)

C33_WitnessBodyFailure ==
    /\ JustRan
    /\ UndeclaredAborted
    /\ BodyRewritten
    /\ ~BodyRender.ok
    /\ run.errors = <<BodyRender.err>>
    /\ run.ret.err # BodyRender.err

\* The places in the calls of the last orchestration of the calls named op.
CallPlaces(op) == {i \in DOMAIN run.calls : run.calls[i].op = op}

\* The calls of the body rewrite: the drain, the set of content-length,
\* then the append of the rendered bytes or the remove of content-type.
BodyRewriteCalls ==
    LET bc == CallsIn("body")
    IN /\ Len(bc) = 3
       /\ bc[1].op = BodyOp("drain")
       /\ bc[2].op = Op("set") /\ bc[2].key = "content-length"
       /\ \/ bc[3].op = BodyOp("append") /\ bc[3].value # ""
          \/ bc[3].op = Op("remove") /\ bc[3].key = "content-type"

\* The render of the body template was made when the drain was the last
\* call issued.
DrainBeforeRender ==
    \E i \in DOMAIN run.renders :
        /\ run.renders[i].at = <<"body", 1>>
        /\ run.renders[i].issued \in CallPlaces(BodyOp("drain"))
        /\ \A j \in DOMAIN run.calls :
              run.calls[j].at[1] = "body" => j >= run.renders[i].issued

(* C34: in the body rewrite (body template with non-empty text) the host    *)
(* operations are, in this order: one drain of the existing body, issued    *)
(* before the template is rendered, one set of content-length, then one     *)
(* append of the rendered bytes or one remove of content-type; the drain is *)
(* made whether or not the render succeeds, and no append comes before the  *)
(* drain.                                                                   *)
C34_BodyRewriteOrder ==
    Ran =>
        /\ BodyRewritten =>
              /\ BodyRewriteCalls
              /\ DrainBeforeRender
              /\ BodyOf(run.after) = BodyAfterRewrite
        /\ ~BodyRewritten => CallsIn("body") = <<>>
        /\ Cardinality(CallPlaces(BodyOp("drain"))) <= 1
        /\ Cardinality(CallPlaces(BodyOp("append"))) <= 1
        /\ \A i \in CallPlaces(BodyOp("append")) :
              \E j \in CallPlaces(BodyOp("drain")) : j < i
        /\ \A i \in DOMAIN run.calls :
              run.calls[i].op \in {BodyOp("drain"), BodyOp("append")}
                 => run.calls[i].at = <<"body", 1>>

\* The body was drained and the render of its template failed: the body is
\* left empty.
C34_Witness ==
    /\ JustRan
    /\ BodyRewritten
    /\ ~BodyRender.ok
    /\ BodyOf(run.before) # ""
    /\ BodyOf(run.after) = ""
    /\ CallsIn("body")[1].op = BodyOp("drain")
    /\ CallsIn("body")[3].op = Op("remove")
    /\ CallsIn("context") # <<>>

\* The rendered bytes were appended after the drain.
C34_WitnessAppend ==
    /\ JustRan
    /\ BodyRewritten
    /\ BodyRender.ok
    /\ BodyOf(run.before) # ""
    /\ CallsIn("body")[3].op = BodyOp("append")
    /\ BodyOf(run.after) = BodyRender.s
    /\ run.side = RESPONSE

\* A step leaves the request headers map alone once it is populated, and a
\* step that populates it reads the request headers as they are before the
\* step.
PopulatedOnce ==
    /\ IsSome(filter.request_headers_map) =>
          filter'.request_headers_map = filter.request_headers_map
    /\ (~IsSome(filter.request_headers_map) /\ IsSome(filter'.request_headers_map)) =>
          /\ filter'.request_headers_map = Some(create_headers_map(envoy.request_headers))
          /\ status'.ran
          /\ run'.request_headers_map = filter'.request_headers_map.v

\* Every orchestration is given the map the filter holds; a filter that
\* holds none has run no orchestration and gives the empty map.
OrchestrationsUseTheMap ==
    /\ Ran => /\ IsSome(filter.request_headers_map)
              /\ run.request_headers_map = filter.request_headers_map.v
    /\ ~IsSome(filter.request_headers_map) =>
          /\ ~Ran
          /\ get_request_headers_map(filter) = EmptyMap

(* C35: in a filter instance the request headers map is populated at most   *)
(* once: after the callback that populates it no later callback, of the     *)
(* request or of the response, changes it, so request_header() in a         *)
(* response template sees the request headers as they were before the       *)
(* request transformation changed them; before it is populated it is the    *)
(* empty map.                                                               *)
C35_PopulatedOnce == [](OrchestrationsUseTheMap) /\ [][PopulatedOnce]_vars

\* The request transformation set x-a to another value; the response
\* template's request_header('x-a') gave the value read before that.
C35_Witness ==
    /\ JustRan
    /\ run.side = RESPONSE
    /\ HeaderValues(run.before.request_headers, "x-a") = <<"v1">>
    /\ run.request_headers_map = create_headers_map(<< <<"x-a", "rv">> >>)
    /\ run.request_headers_map # create_headers_map(run.before.request_headers)
    /\ \E i \in DOMAIN run.renders :
          /\ run.renders[i].template = T_REQ_HEADER
          /\ run.renders[i].r = Ok("rv")

\* No callback has populated the map yet.
C35_WitnessEmpty ==
    /\ ~IsSome(filter.request_headers_map)
    /\ status.callback = "on_request_headers"
    /\ phase = "request_body"

\* The configuration object the filter uses: the per-route configuration
\* when it holds one, else the filter-level configuration.
ConfigObjectInUse ==
    IF IsSome(filter.per_route_config) THEN filter.per_route_config.v
    ELSE filter.filter_config

TransformOf(config, side) ==
    IF side = REQUEST THEN config.transformations.request
    ELSE config.transformations.response

\* The orchestration a callback just ran took its transform and its
\* template registry from the configuration object in use.
OneConfiguration ==
    JustRan =>
        /\ TransformOf(ConfigObjectInUse, run.side) = Some(run.transform)
        /\ \A rc \in RendersNow :
              rc.template # "" =>
                 /\ rc.key \in DOMAIN ConfigObjectInUse.env
                 /\ rc.r = render(ConfigObjectInUse.env, run.ctx, rc.key, rc.template,
                                  rc.parsed_body_as_json)

\* A step changes neither the filter-level configuration nor a per-route
\* configuration the filter holds; a callback that resolves the per-route
\* configuration takes the one of the route; and a callback of a filter
\* with a per-route configuration that has no transform for the message
\* runs nothing.
ResolvedOnce ==
    /\ filter'.filter_config = filter.filter_config
    /\ IsSome(filter.per_route_config) =>
          filter'.per_route_config = filter.per_route_config
    /\ (~IsSome(filter.per_route_config) /\ IsSome(filter'.per_route_config)) =>
          /\ filter'.per_route_config = envoy.route_config
          /\ envoy.route_config # Some(WrongRouteConfigType)
    /\ (/\ envoy'.route_config = envoy.route_config
        /\ IsSome(filter'.per_route_config)
        /\ ~IsSome(TransformOf(filter'.per_route_config.v, SideOfPhase(phase)))) =>
          /\ status'.ret = Continue
          /\ ~status'.ran
          /\ run' = run
          /\ envoy' = envoy

(* C36: in a filter instance the per-route configuration is resolved at     *)
(* most once and never changes afterwards, and in every orchestration the   *)
(* template registry and the transform come from the same configuration     *)
(* object: from the per-route configuration when there is one (a transform  *)
(* absent in it is not taken from the filter-level configuration), else     *)
(* from the filter-level configuration.                                     *)
C36_OneConfiguration == [](OneConfiguration) /\ [][ResolvedOnce]_vars

\* A response orchestration with the transform and the templates of the
\* per-route configuration, while the route of the stream is now another.
C36_Witness ==
    /\ JustRan
    /\ run.side = RESPONSE
    /\ IsSome(filter.per_route_config)
    /\ run.transform = PerRouteResponse
    /\ TransformOf(filter.filter_config, RESPONSE) = Some(FilterLevelResponse)
    /\ envoy.route_config # filter.per_route_config
    /\ \E rc \in RendersNow : rc.key \notin DOMAIN filter.filter_config.env /\ rc.r.ok

\* The per-route configuration has no response transform, the filter-level
\* configuration has one: the response callback ran nothing.
C36_WitnessAbsent ==
    /\ IsSome(filter.per_route_config)
    /\ ~IsSome(TransformOf(filter.per_route_config.v, RESPONSE))
    /\ IsSome(TransformOf(filter.filter_config, RESPONSE))
    /\ status.callback = "on_response_headers"
    /\ status.end_of_stream
    /\ ~status.ran
    /\ status.ret = Continue

\* The route gives an object of another type: the filter-level
\* configuration is used.
C36_WitnessWrongType ==
    /\ JustRan
    /\ ~IsSome(filter.per_route_config)
    /\ envoy.route_config = Some(WrongRouteConfigType)
    /\ TransformOf(filter.filter_config, run.side) = Some(run.transform)

\* The orchestration read, parsed or drained the response body.
ResponseBodyAccessed ==
    \E i \in DOMAIN run.calls :
        run.calls[i].op \in {"parse_response_json_body", "get_response_body",
                             "drain_response_body"}

\* At the first body access the buffered response body was absent and the
\* received response body was present. No call before the drain changes a
\* body, so the bodies then are those the orchestration started from.
ReceivedAtFirstAccess ==
    /\ ~IsSome(run.before.buffered_response_body)
    /\ IsSome(run.before.received_response_body)

\* What a drain followed by the appends of the orchestration leaves in the
\* buffer they act on.
RewrittenBuffer(buffer) ==
    LET as == SelectSeq(run.calls, LAMBDA c : c.op = "append_response_body")
    IN IF as = <<>> THEN Drained(buffer)
       ELSE Some([i \in 1..Len(as) |-> as[i].value])

Drains == CallPlaces("drain_response_body")

(* C37: within one response orchestration drain_response_body and every     *)
(* later append_response_body act on the same host buffer: the received     *)
(* response body exactly when, at the first body access of the              *)
(* orchestration, the buffered response body was absent and the received    *)
(* response body present, else the buffered response body.                  *)
C37_OneResponseBuffer ==
    (Ran /\ run.side = RESPONSE) =>
        /\ ResponseBodyAccessed =>
              run.used_received_response_body = Some(ReceivedAtFirstAccess)
        /\ (Drains # {} /\ ReceivedAtFirstAccess) =>
              /\ run.after.received_response_body =
                    RewrittenBuffer(run.before.received_response_body)
              /\ run.after.buffered_response_body = run.before.buffered_response_body
        /\ (Drains # {} /\ ~ReceivedAtFirstAccess) =>
              /\ run.after.buffered_response_body =
                    RewrittenBuffer(run.before.buffered_response_body)
              /\ run.after.received_response_body = run.before.received_response_body
        /\ Drains = {} =>
              /\ run.after.buffered_response_body = run.before.buffered_response_body
              /\ run.after.received_response_body = run.before.received_response_body

\* The body of a local reply, in the received buffer, was parsed, drained
\* and replaced there.
C37_Witness ==
    /\ JustRan
    /\ run.side = RESPONSE
    /\ ReceivedAtFirstAccess
    /\ CallPlaces("parse_response_json_body") # {}
    /\ Drains # {}
    /\ CallPlaces("append_response_body") # {}
    /\ run.before.received_response_body = Some(<<B_OBJECT>>)
    /\ run.after.received_response_body # run.before.received_response_body
    /\ run.after.received_response_body \notin {None, Some(<<>>)}
    /\ run.after.buffered_response_body = None

\* Both buffers hold a body: the buffered one is rewritten, the received
\* one is left.
C37_WitnessBoth ==
    /\ JustRan
    /\ run.side = RESPONSE
    /\ IsSome(run.before.buffered_response_body)
    /\ run.before.received_response_body = Some(<<B_NUMBER>>)
    /\ CallPlaces("append_response_body") # {}
    /\ run.after.received_response_body = Some(<<B_NUMBER>>)
    /\ run.after.buffered_response_body # run.before.buffered_response_body

\* No body at all: the new body goes to the buffered response body.
C37_WitnessNone ==
    /\ JustRan
    /\ run.side = RESPONSE
    /\ run.before.buffered_response_body = None
    /\ run.before.received_response_body = None
    /\ CallPlaces("append_response_body") # {}
    /\ run.after.buffered_response_body \notin {None, Some(<<>>)}
    /\ run.after.received_response_body = None

\* The last orchestration, run on the same message with another body.
RerunWithBody(b) ==
    IF run.side = REQUEST
    THEN transform_request(get_env(filter), run.transform, run.request_headers_map,
                           EnvoyTransformationOps_new(
                              [run.before EXCEPT !.buffered_request_body = b]))
    ELSE transform_response(get_env(filter), run.transform, run.request_headers_map,
                            run.response_headers_map,
                            EnvoyTransformationOps_new(
                               [run.before EXCEPT !.buffered_response_body = b]))

HeaderNamesAsked == {"x-a", "X-A", "x-b", "content-type"}

\* header() and request_header() give the same in the two contexts.
SameHeaders(c1, c2) ==
    \A n \in HeaderNamesAsked :
        /\ header(c1, n) = header(c2, n)
        /\ request_header(c1, n) = request_header(c2, n)

\* The body the orchestration started from has a field named like a
\* context key of the header maps.
ReservedFieldInBody ==
    /\ JsonRequested
    /\ HostParse.ok
    /\ HostParse.v.k = "map"
    /\ \E n \in DOMAIN HostParse.v.m :
          n \in {STATE_LOOKUP_KEY_HEADERS, STATE_LOOKUP_KEY_REQ_HEADERS}

(* C38: the values bound under the context keys of the current-message      *)
(* headers and of the request headers are never replaced by fields of the   *)
(* parsed JSON body: two orchestrations that differ only in the body        *)
(* content give the same header(name) and request_header(name) for every    *)
(* name.                                                                    *)
C38_ReservedKeysKept ==
    Ran =>
        /\ SameHeaders(run.ctx, HeaderContext)
        /\ \A b \in CollisionBodies : SameHeaders(run.ctx, RerunWithBody(b).ctx)

\* The same, for the bodies without a field named like a context key of
\* the header maps.
C38_UnlessFieldNamed ==
    (Ran /\ ~ReservedFieldInBody) => SameHeaders(run.ctx, HeaderContext)

\* The body field headers.dev.kgateway took the place of the headers map:
\* header('x-a') renders the value of the body, not the header's.
C38_WitnessReplaced ==
    /\ JustRan
    /\ ReservedFieldInBody
    /\ HeaderValues(HeadersOf(run.before), "x-a") = <<"hv">>
    /\ header(HeaderContext, "x-a") = "hv"
    /\ header(run.ctx, "x-a") = "fv"
    /\ header(RerunWithBody(Some(<<B_OBJECT>>)).ctx, "x-a") = "hv"
    /\ \E rc \in RendersNow : rc.template = T_HEADER /\ rc.r = Ok("fv")
    /\ HeaderValues(HeadersOf(run.after), "x-b") = <<"fv">>

\* A body with other fields: header('x-a') renders the header's value.
C38_WitnessKept ==
    /\ JustRan
    /\ JsonRequested
    /\ ~ReservedFieldInBody
    /\ run.parsed_body_as_json
    /\ \E rc \in RendersNow : rc.template = T_HEADER /\ rc.r = Ok("hv")

============================================================================
